---- MODULE Spec2Model ----
(***************************************************************************)
(* Model of the request execution engine of the HTTP client wrappers:      *)
(*   - httpclient.CommonHTTPClient (net/http based, retry loop in Do)      *)
(*   - hwaasresty.CommonHTTPClient (resty based)                           *)
(*   - httpclient2.Client (functional options, authentication)             *)
(* Go strings are sequences of one-character strings, byte slices are      *)
(* sequences of numbers, io.Reader values are records with a read          *)
(* position.                                                               *)
(***************************************************************************)
EXTENDS Integers, Sequences, FiniteSets, TLC

\* ------------------------------------------------------------------ bounds
\* largest ClientConfig.MaxRetries explored
MaxRetriesBound == 2
\* longest request body explored (bytes)
MaxBodyLen == 2
\* the time at which the clock stops
MaxTime == 6
\* the number of concurrent Do calls on one client
MaxCalls == 2

\* the values of ClientConfig.RetryBackoff explored (milliseconds)
Backoffs == {0, 10}

\* the status codes the transport answers with
Statuses == {200, 404, 500, 503}

\* ------------------------------------------------------------- Go strings
S_GET == <<"G", "E", "T">>
S_POST == <<"P", "O", "S", "T">>
S_PUT == <<"P", "U", "T">>
S_DELETE == <<"D", "E", "L", "E", "T", "E">>
S_PATCH == <<"P", "A", "T", "C", "H">>
S_HEAD == <<"H", "E", "A", "D">>
S_OPTIONS == <<"O", "P", "T", "I", "O", "N", "S">>
S_BADMETHOD == <<"G", " ", "T">>
S_Authorization == <<"A", "u", "t", "h", "o", "r", "i", "z", "a", "t", "i", "o", "n">>
S_authorization == <<"a", "u", "t", "h", "o", "r", "i", "z", "a", "t", "i", "o", "n">>
S_X_API_Key == <<"X", "-", "A", "P", "I", "-", "K", "e", "y">>
S_Basic_ == <<"B", "a", "s", "i", "c", " ">>
S_Bearer_ == <<"B", "e", "a", "r", "e", "r", " ">>
S_header == <<"h", "e", "a", "d", "e", "r">>
S_query == <<"q", "u", "e", "r", "y">>
S_api_key == <<"a", "p", "i", "_", "k", "e", "y">>
S_https_h == <<"h", "t", "t", "p", "s", ":", "/", "/", "h">>
S_https_h_v1 == <<"h", "t", "t", "p", "s", ":", "/", "/", "h", "/", "v", "1">>
S_p == <<"/", "p">>
S_p_api_key == <<"/", "p", "?", "a", "p", "i", "_", "k", "e", "y", "=", "p">>
S_p_z_f == <<"/", "p", "?", "z", "=", "1", "#", "f">>
S_colon == <<":">>
S_Date == <<"D", "a", "t", "e">>
S_x_amp_y == <<"x", "&", "y">>

\* the verbs the resty-based Do dispatches on
SupportedMethods == {S_GET, S_POST, S_PUT, S_DELETE, S_PATCH, S_HEAD}

\* methods a caller may put in RequestOptions.Method
Methods == {S_GET, S_OPTIONS, <<>>, S_BADMETHOD}

\* ---------------------------------------------------------------- bytes
\* the printable ASCII characters in code order, from 32 (space) to 126 (~);
\* the grave accent (96) is not used by any input and stands as a word
AsciiPrintable ==
  <<" ", "!", "\"", "#", "$", "%", "&", "'", "(", ")", "*", "+", ",", "-", ".", "/",
    "0", "1", "2", "3", "4", "5", "6", "7", "8", "9", ":", ";", "<", "=", ">", "?", "@",
    "A", "B", "C", "D", "E", "F", "G", "H", "I", "J", "K", "L", "M",
    "N", "O", "P", "Q", "R", "S", "T", "U", "V", "W", "X", "Y", "Z",
    "[", "\\", "]", "^", "_", "grave",
    "a", "b", "c", "d", "e", "f", "g", "h", "i", "j", "k", "l", "m",
    "n", "o", "p", "q", "r", "s", "t", "u", "v", "w", "x", "y", "z",
    "{", "|", "}", "~">>

\* the byte value of each character
OrdTable ==
  [c \in {AsciiPrintable[i] : i \in 1..Len(AsciiPrintable)} |->
     31 + (CHOOSE i \in 1..Len(AsciiPrintable) : AsciiPrintable[i] = c)]

\* the byte value of a character
Ord(c) == OrdTable[c]

\* the character of a byte value
Chr(n) == AsciiPrintable[n - 31]

IsUpper(c) == Ord(c) >= 65 /\ Ord(c) <= 90
IsLower(c) == Ord(c) >= 97 /\ Ord(c) <= 122
IsDigit(c) == Ord(c) >= 48 /\ Ord(c) <= 57
ToUpper(c) == IF IsLower(c) THEN Chr(Ord(c) - 32) ELSE c
ToLower(c) == IF IsUpper(c) THEN Chr(Ord(c) + 32) ELSE c

\* Go's string comparison a < b: bytewise lexicographic
RECURSIVE StrLess(_, _)
StrLess(a, b) ==
  IF b = <<>> THEN FALSE
  ELSE IF a = <<>> THEN TRUE
  ELSE IF Ord(Head(a)) # Ord(Head(b)) THEN Ord(Head(a)) < Ord(Head(b))
  ELSE StrLess(Tail(a), Tail(b))

\* all orders in which a range loop can visit the keys of a Go map
Orders(S) ==
  {o \in [1..Cardinality(S) -> S] : \A i, j \in 1..Cardinality(S) : i # j => o[i] # o[j]}

\* the punctuation among the RFC 7230 token characters (the grave accent,
\* also one, is not used by any input)
TokenPunct == {"!", "#", "$", "%", "&", "'", "*", "+", "-", ".", "^", "_", "|", "~"}

\* httpguts.IsTokenRune
IsTokenChar(c) == IsUpper(c) \/ IsLower(c) \/ IsDigit(c) \/ c \in TokenPunct

\* net/http validMethod: a non-empty sequence of token characters
validMethod(m) == Len(m) > 0 /\ \A i \in 1..Len(m) : IsTokenChar(m[i])

\* textproto.CanonicalMIMEHeaderKey: a key holding a non-token byte is left
\* as it is; otherwise the first letter and every letter after a hyphen are
\* upper-cased and the others lower-cased
CanonicalMIMEHeaderKey(k) ==
  IF \E i \in 1..Len(k) : ~IsTokenChar(k[i])
    THEN k
    ELSE [i \in 1..Len(k) |->
            IF i = 1 \/ k[i - 1] = "-" THEN ToUpper(k[i]) ELSE ToLower(k[i])]

\* the character of a base64 digit (base64.StdEncoding)
B64Char(v) ==
  IF v < 26 THEN Chr(65 + v)
  ELSE IF v < 52 THEN Chr(97 + v - 26)
  ELSE IF v < 62 THEN Chr(48 + v - 52)
  ELSE IF v = 62 THEN "+" ELSE "/"

\* base64.StdEncoding.EncodeToString
RECURSIVE B64(_)
B64(b) ==
  IF Len(b) = 0 THEN <<>>
  ELSE IF Len(b) = 1 THEN
    <<B64Char(Ord(b[1]) \div 4), B64Char((Ord(b[1]) % 4) * 16), "=", "=">>
  ELSE IF Len(b) = 2 THEN
    <<B64Char(Ord(b[1]) \div 4),
      B64Char((Ord(b[1]) % 4) * 16 + Ord(b[2]) \div 16),
      B64Char((Ord(b[2]) % 16) * 4), "=">>
  ELSE
    <<B64Char(Ord(b[1]) \div 4),
      B64Char((Ord(b[1]) % 4) * 16 + Ord(b[2]) \div 16),
      B64Char((Ord(b[2]) % 16) * 4 + Ord(b[3]) \div 64),
      B64Char(Ord(b[3]) % 64)>> \o B64(SubSeq(b, 4, Len(b)))

\* ---------------------------------------------------------------- streams
\* An io.Reader: data, the number of bytes already read, and the number of
\* bytes that can be read before Read fails (-1: never fails). nil marks
\* the nil interface value.
NilReader == [nil |-> TRUE, data |-> <<>>, pos |-> 0, failAt |-> -1]

NewReader(b) == [nil |-> FALSE, data |-> b, pos |-> 0, failAt |-> -1]

\* index one past the last byte a reader can still yield
ReadLimit(r) == IF r.failAt >= 0 /\ r.failAt < Len(r.data) THEN r.failAt ELSE Len(r.data)

\* the bytes a full read of r yields from its current position
Remaining(r) == IF r.pos >= ReadLimit(r) THEN <<>> ELSE SubSeq(r.data, r.pos + 1, ReadLimit(r))

\* whether a full read of r ends in an error instead of EOF
ReadFails(r) == r.failAt >= 0 /\ r.failAt < Len(r.data)

\* r after n more bytes were read
Advance(r, n) == [r EXCEPT !.pos = IF r.pos + n > ReadLimit(r) THEN ReadLimit(r) ELSE r.pos + n]

\* r after a read to EOF or to the first error
Drained(r) == Advance(r, Len(Remaining(r)))

\* request bodies: the byte strings 1, 1 2, 1 2 3, ... up to MaxBodyLen
Bodies == {[i \in 1..n |-> i] : n \in 0..MaxBodyLen}

\* the values of RequestOptions.Body: nil, or a stream over some bytes that
\* may fail before its end
BodyReaders ==
  {NilReader} \cup
  {r \in [nil : {FALSE}, data : Bodies, pos : {0}, failAt : -1..(MaxBodyLen - 1)] :
     r.failAt < Len(r.data)}

\* ---------------------------------------------------------------- headers
\* Go maps (map[string]string) are functions from the set of their keys; a
\* range loop visits the keys in any order. http.Header maps canonical keys
\* to lists of values.
EmptyMap == <<>>

\* http.Header.Set
HeaderSet(h, k, v) ==
  LET ck == CanonicalMIMEHeaderKey(k) IN
  [x \in (DOMAIN h) \cup {ck} |-> IF x = ck THEN <<v>> ELSE h[x]]

\* for k, v := range m { h.Set(k, v) }, the keys visited in order o
RECURSIVE SetAll(_, _, _)
SetAll(h, m, o) ==
  IF o = <<>> THEN h ELSE SetAll(HeaderSet(h, Head(o), m[Head(o)]), m, Tail(o))

\* net/http CommonHTTPClient.Do: default headers, then request headers
HTTPDoHeadersDefaultsLast(defaultHeaders, headers, o1, o2) ==
  SetAll(SetAll(EmptyMap, headers, o2), defaultHeaders, o1)
HTTPDoHeaders(defaultHeaders, headers, o1, o2) ==
  SetAll(SetAll(EmptyMap, defaultHeaders, o1), headers, o2)

\* resty CommonHTTPClient.Do: req.SetHeader for the default headers, then
\* for the request headers
RestyDoHeaders(defaultHeaders, headers, o1, o2) ==
  SetAll(SetAll(EmptyMap, defaultHeaders, o1), headers, o2)

\* -------------------------------------------------------------------- URLs
\* strings.Index for a one-byte separator: 0 when c does not occur in s
RECURSIVE IndexFrom(_, _, _)
IndexFrom(s, c, i) ==
  IF i > Len(s) THEN 0 ELSE IF s[i] = c THEN i ELSE IndexFrom(s, c, i + 1)

IndexOf(s, c) == IndexFrom(s, c, 1)

Contains(s, c) == IndexOf(s, c) > 0

\* strings.Cut
Cut(s, c) ==
  LET i == IndexOf(s, c) IN
  IF i = 0 THEN [before |-> s, after |-> <<>>, found |-> FALSE]
  ELSE [before |-> SubSeq(s, 1, i - 1), after |-> SubSeq(s, i + 1, Len(s)), found |-> TRUE]

HasPrefix(s, pre) == Len(s) >= Len(pre) /\ SubSeq(s, 1, Len(pre)) = pre

RECURSIVE CountOf(_, _)
CountOf(s, c) ==
  IF s = <<>> THEN 0 ELSE (IF Head(s) = c THEN 1 ELSE 0) + CountOf(Tail(s), c)

HexDigits == <<"0", "1", "2", "3", "4", "5", "6", "7", "8", "9", "A", "B", "C", "D", "E", "F">>

\* net/url ishex and unhex
ishex(c) ==
  IsDigit(c) \/ (Ord(c) >= 97 /\ Ord(c) <= 102) \/ (Ord(c) >= 65 /\ Ord(c) <= 70)
unhex(c) ==
  IF IsDigit(c) THEN Ord(c) - 48
  ELSE IF Ord(c) >= 97 /\ Ord(c) <= 102 THEN Ord(c) - 97 + 10
  ELSE Ord(c) - 65 + 10

\* net/url shouldEscape for the modes "path", "host", "query" (a query
\* component) and "fragment"
shouldEscape(c, mode) ==
  IF IsUpper(c) \/ IsLower(c) \/ IsDigit(c) THEN FALSE
  ELSE IF mode = "host" /\
          c \in {"!", "$", "&", "'", "(", ")", "*", "+", ",", ";", "=", ":", "[", "]",
                 "<", ">", "\""} THEN FALSE
  ELSE IF c \in {"-", "_", ".", "~"} THEN FALSE
  ELSE IF c \in {"$", "&", "+", ",", "/", ":", ";", "=", "?", "@"} THEN
    (IF mode = "path" THEN c = "?"
     ELSE IF mode = "query" THEN TRUE
     ELSE FALSE)
  ELSE IF mode = "fragment" /\ c \in {"!", "(", ")", "*"} THEN FALSE
  ELSE TRUE

\* net/url escape
RECURSIVE escape(_, _)
escape(s, mode) ==
  IF s = <<>> THEN <<>>
  ELSE LET c == Head(s) IN
       (IF shouldEscape(c, mode)
          THEN IF c = " " /\ mode = "query"
                 THEN <<"+">>
                 ELSE <<"%", HexDigits[(Ord(c) \div 16) + 1], HexDigits[(Ord(c) % 16) + 1]>>
          ELSE <<c>>) \o escape(Tail(s), mode)

QueryEscape(s) == escape(s, "query")

\* whether net/url unescape accepts s: every % is followed by two hex digits
RECURSIVE validEscapes(_)
validEscapes(s) ==
  IF s = <<>> THEN TRUE
  ELSE IF Head(s) = "%"
    THEN Len(s) >= 3 /\ ishex(s[2]) /\ ishex(s[3]) /\ validEscapes(SubSeq(s, 4, Len(s)))
    ELSE validEscapes(Tail(s))

\* the string net/url unescape yields for an accepted s
RECURSIVE unescaped(_, _)
unescaped(s, mode) ==
  IF s = <<>> THEN <<>>
  ELSE IF Head(s) = "%"
    THEN <<Chr(unhex(s[2]) * 16 + unhex(s[3]))>> \o unescaped(SubSeq(s, 4, Len(s)), mode)
    ELSE IF Head(s) = "+" /\ mode = "query"
      THEN <<" ">> \o unescaped(Tail(s), mode)
      ELSE <<Head(s)>> \o unescaped(Tail(s), mode)

\* url.Values.Add
ValuesAddOverwrites(v, k, x) ==
  [y \in (DOMAIN v) \cup {k} |-> IF y = k THEN <<x>> ELSE v[y]]
ValuesAdd(v, k, x) ==
  [y \in (DOMAIN v) \cup {k} |->
     IF y = k THEN (IF k \in DOMAIN v THEN Append(v[k], x) ELSE <<x>>) ELSE v[y]]

\* url.ParseQuery, the pairs it cannot parse left out (URL.Query drops the error)
RECURSIVE ParseQueryInto(_, _)
ParseQueryInto(v, query) ==
  IF query = <<>> THEN v
  ELSE LET c == Cut(query, "&")
           kv == Cut(c.before, "=")
       IN IF Contains(c.before, ";") \/ c.before = <<>> \/
             ~validEscapes(kv.before) \/ ~validEscapes(kv.after)
            THEN ParseQueryInto(v, c.after)
            ELSE ParseQueryInto(
                   ValuesAdd(v, unescaped(kv.before, "query"), unescaped(kv.after, "query")),
                   c.after)

ParseQuery(query) == ParseQueryInto(EmptyMap, query)

\* the keys of a map in sorted order (slices.Sorted)
RECURSIVE SortedKeys(_)
SortedKeys(K) ==
  IF K = {} THEN <<>>
  ELSE LET m == CHOOSE k \in K : \A j \in K : j = k \/ StrLess(k, j)
       IN <<m>> \o SortedKeys(K \ {m})

\* the order in which url.Values.Encode writes the keys
EncodeKeyOrder(v) == SortedKeys(DOMAIN v)

\* key=value for each value of one key, joined by &
RECURSIVE EncodeKey(_, _)
EncodeKey(k, vals) ==
  IF vals = <<>> THEN <<>>
  ELSE QueryEscape(k) \o <<"=">> \o QueryEscape(Head(vals)) \o
       (IF Tail(vals) = <<>> THEN <<>> ELSE <<"&">> \o EncodeKey(k, Tail(vals)))

RECURSIVE EncodeKeys(_, _)
EncodeKeys(v, keys) ==
  IF keys = <<>> THEN <<>>
  ELSE LET first == EncodeKey(Head(keys), v[Head(keys)])
           rest == EncodeKeys(v, Tail(keys))
       IN IF first = <<>> THEN rest
          ELSE IF rest = <<>> THEN first
          ELSE first \o <<"&">> \o rest

\* url.Values.Encode
Encode(v) == EncodeKeys(v, EncodeKeyOrder(v))

\* net/url getScheme: ok is false for a URL that starts with a colon
RECURSIVE getSchemeFrom(_, _)
getSchemeFrom(raw, i) ==
  IF i > Len(raw) THEN [ok |-> TRUE, scheme |-> <<>>, rest |-> raw]
  ELSE LET c == raw[i] IN
    IF IsUpper(c) \/ IsLower(c) THEN getSchemeFrom(raw, i + 1)
    ELSE IF IsDigit(c) \/ c \in {"+", "-", "."} THEN
      (IF i = 1 THEN [ok |-> TRUE, scheme |-> <<>>, rest |-> raw]
       ELSE getSchemeFrom(raw, i + 1))
    ELSE IF c = ":" THEN
      (IF i = 1 THEN [ok |-> FALSE, scheme |-> <<>>, rest |-> <<>>]
       ELSE [ok |-> TRUE, scheme |-> SubSeq(raw, 1, i - 1), rest |-> SubSeq(raw, i + 1, Len(raw))])
    ELSE [ok |-> TRUE, scheme |-> <<>>, rest |-> raw]

NoURL ==
  [ok |-> FALSE, Scheme |-> <<>>, Opaque |-> <<>>, Host |-> <<>>, Path |-> <<>>,
   RawPath |-> <<>>, ForceQuery |-> FALSE, RawQuery |-> <<>>, Fragment |-> <<>>]

\* url.Parse, the part after the scheme and the query are split off: the
\* authority and the path
parseAuthorityAndPath(scheme, host, path, force, rawQuery, fragment) ==
  IF ~validEscapes(host) \/ ~validEscapes(path)
    THEN NoURL
    ELSE [ok |-> TRUE, Scheme |-> scheme, Opaque |-> <<>>, Host |-> unescaped(host, "host"),
          Path |-> unescaped(path, "path"),
          RawPath |-> IF escape(unescaped(path, "path"), "path") = path THEN <<>> ELSE path,
          ForceQuery |-> force, RawQuery |-> rawQuery, Fragment |-> fragment]

\* the authority of //authority/path and the rest
splitAuthority(afterAuth, slash) ==
  IF slash = 0
    THEN [host |-> afterAuth, path |-> <<>>]
    ELSE [host |-> SubSeq(afterAuth, 1, slash - 1),
          path |-> SubSeq(afterAuth, slash, Len(afterAuth))]

\* url.Parse after the scheme and the query are split off
parseRest(scheme, rest, force, rawQuery, fragment) ==
  IF ~HasPrefix(rest, <<"/">>) /\ scheme # <<>> THEN
    [NoURL EXCEPT !.ok = TRUE, !.Scheme = scheme, !.Opaque = rest, !.ForceQuery = force,
                  !.RawQuery = rawQuery, !.Fragment = fragment]
  ELSE IF ~HasPrefix(rest, <<"/">>) /\ Contains(Cut(rest, "/").before, ":") THEN NoURL
  ELSE IF HasPrefix(rest, <<"/", "/">>) /\
          (scheme # <<>> \/ ~HasPrefix(rest, <<"/", "/", "/">>)) THEN
    parseAuthorityAndPath(
      scheme,
      splitAuthority(SubSeq(rest, 3, Len(rest)), IndexOf(SubSeq(rest, 3, Len(rest)), "/")).host,
      splitAuthority(SubSeq(rest, 3, Len(rest)), IndexOf(SubSeq(rest, 3, Len(rest)), "/")).path,
      force, rawQuery, fragment)
  ELSE parseAuthorityAndPath(scheme, <<>>, rest, force, rawQuery, fragment)

\* url.Parse after the scheme is split off: a lone trailing ? forces an
\* empty query, otherwise the query starts at the first ?
parseAfterScheme(scheme, rest, fragment) ==
  IF Len(rest) > 0 /\ rest[Len(rest)] = "?" /\ CountOf(rest, "?") = 1
    THEN parseRest(scheme, SubSeq(rest, 1, Len(rest) - 1), TRUE, <<>>, fragment)
    ELSE parseRest(scheme, Cut(rest, "?").before, FALSE, Cut(rest, "?").after, fragment)

\* url.Parse after the fragment is cut off
parseNoFragment(sch, frag) ==
  IF ~sch.ok \/ ~validEscapes(frag)
    THEN NoURL
    ELSE parseAfterScheme([i \in 1..Len(sch.scheme) |-> ToLower(sch.scheme[i])], sch.rest,
                          unescaped(frag, "fragment"))

\* url.Parse (no user info; hosts are registered names)
urlParse(rawURL) ==
  parseNoFragment(getSchemeFrom(Cut(rawURL, "#").before, 1), Cut(rawURL, "#").after)

\* net/url validEncoded for the path
validEncodedPath(s) ==
  \A i \in 1..Len(s) :
    \/ s[i] \in {"!", "$", "&", "'", "(", ")", "*", "+", ",", ";", "=", ":", "@", "[", "]", "%"}
    \/ ~shouldEscape(s[i], "path")

\* URL.EscapedPath
EscapedPath(u) ==
  IF u.RawPath # <<>> /\ validEncodedPath(u.RawPath) /\ validEscapes(u.RawPath) /\
     unescaped(u.RawPath, "path") = u.Path
    THEN u.RawPath
    ELSE IF u.Path = <<"*">> THEN u.Path ELSE escape(u.Path, "path")

\* URL.String up to the path: scheme, and either the opaque part or the
\* authority
urlHead(u, path) ==
  (IF u.Scheme # <<>> THEN u.Scheme \o <<":">> ELSE <<>>) \o
  (IF u.Opaque # <<>> THEN u.Opaque
   ELSE (IF (u.Scheme # <<>> \/ u.Host # <<>>) /\ (u.Host # <<>> \/ u.Path # <<>>)
           THEN <<"/", "/">> \o escape(u.Host, "host") ELSE <<>>) \o
        (IF path # <<>> /\ path[1] # "/" /\ u.Host # <<>> THEN <<"/">> ELSE <<>>))

\* URL.String from the head and the escaped path
urlJoin(u, head, path) ==
  head \o
  (IF u.Opaque = <<>> /\ head = <<>> /\ Contains(Cut(path, "/").before, ":")
     THEN <<".", "/">> ELSE <<>>) \o
  (IF u.Opaque # <<>> THEN <<>> ELSE path) \o
  (IF u.ForceQuery \/ u.RawQuery # <<>> THEN <<"?">> \o u.RawQuery ELSE <<>>) \o
  (IF u.Fragment # <<>> THEN <<"#">> \o escape(u.Fragment, "fragment") ELSE <<>>)

urlStringWithPath(u, path) == urlJoin(u, urlHead(u, path), path)

\* URL.String
urlString(u) == urlStringWithPath(u, EscapedPath(u))

\* url.Values.Set
ValuesSetKeepsFirst(v, k, x) ==
  [y \in (DOMAIN v) \cup {k} |-> IF y = k /\ k \notin DOMAIN v THEN <<x>> ELSE v[y]]
ValuesSet(v, k, x) ==
  [y \in (DOMAIN v) \cup {k} |-> IF y = k THEN <<x>> ELSE v[y]]

\* for k, v := range m { q.Set(k, v) }, the keys visited in order o
RECURSIVE ValuesSetAll(_, _, _)
ValuesSetAll(q, m, o) ==
  IF o = <<>> THEN q ELSE ValuesSetAll(ValuesSet(q, Head(o), m[Head(o)]), m, Tail(o))

\* strings.LastIndex for a one-byte separator: 0 when c does not occur in s
RECURSIVE LastIndexFrom(_, _, _)
LastIndexFrom(s, c, i) ==
  IF i < 1 THEN 0 ELSE IF s[i] = c THEN i ELSE LastIndexFrom(s, c, i - 1)

LastIndexOf(s, c) == LastIndexFrom(s, c, Len(s))

\* net/url resolvePath, one element of the loop: dst is what was written so
\* far (it starts with the leading slash), first whether no element was
\* written yet
resolveElem(dst, first, elem) ==
  IF elem = <<".">> THEN [dst |-> dst, first |-> FALSE]
  ELSE IF elem = <<".", ".">> THEN
    (IF LastIndexOf(Tail(dst), "/") = 0
       THEN [dst |-> <<"/">>, first |-> TRUE]
       ELSE [dst |-> <<"/">> \o SubSeq(Tail(dst), 1, LastIndexOf(Tail(dst), "/") - 1),
             first |-> first])
  ELSE [dst |-> dst \o (IF first THEN <<>> ELSE <<"/">>) \o elem, first |-> FALSE]

\* net/url resolvePath, the loop over the elements of the path
RECURSIVE resolveElems(_, _)
resolveElems(st, remaining) ==
  LET c == Cut(remaining, "/")
      nx == resolveElem(st.dst, st.first, c.before)
  IN IF c.found THEN resolveElems(nx, c.after)
     ELSE IF c.before \in {<<".">>, <<".", ".">>} THEN nx.dst \o <<"/">> ELSE nx.dst

\* net/url resolvePath, the end: no two leading slashes
resolveTrim(r) == IF Len(r) > 1 /\ r[2] = "/" THEN Tail(r) ELSE r

\* the path resolvePath resolves: ref against the directory of base
resolveFull(base, ref) ==
  IF ref = <<>> THEN base
  ELSE IF ref[1] # "/" THEN SubSeq(base, 1, LastIndexOf(base, "/")) \o ref
  ELSE ref

\* net/url resolvePath after the full path is formed
resolveFrom(full) ==
  IF full = <<>> THEN <<>>
  ELSE resolveTrim(resolveElems([dst |-> <<"/">>, first |-> TRUE], full))

\* net/url resolvePath
resolvePath(base, ref) == resolveFrom(resolveFull(base, ref))

\* URL.setPath; ResolveReference drops its error, the path then stays as it was
setPath(u, p) ==
  IF ~validEscapes(p) THEN u
  ELSE [u EXCEPT !.Path = unescaped(p, "path"),
                 !.RawPath = IF escape(unescaped(p, "path"), "path") = p THEN <<>> ELSE p]

\* a zero url.URL
ZeroURL == [NoURL EXCEPT !.ok = TRUE]

\* a nil *url.URL
NilURL == NoURL

\* URL.ResolveReference for a base without user info
ResolveReference(u, ref) ==
  IF ref.Scheme # <<>> \/ ref.Host # <<>> THEN setPath(ref, resolvePath(EscapedPath(ref), <<>>))
  ELSE IF ref.Opaque # <<>> THEN [ref EXCEPT !.Scheme = u.Scheme, !.Host = <<>>, !.Path = <<>>]
  ELSE IF ref.Path = <<>> /\ u.Opaque # <<>> THEN
    [ref EXCEPT !.Scheme = u.Scheme, !.Opaque = u.Opaque, !.Host = <<>>, !.Path = <<>>,
                !.RawQuery = IF ~ref.ForceQuery /\ ref.RawQuery = <<>>
                               THEN u.RawQuery ELSE ref.RawQuery,
                !.Fragment = IF ~ref.ForceQuery /\ ref.RawQuery = <<>> /\ ref.Fragment = <<>>
                               THEN u.Fragment ELSE ref.Fragment]
  ELSE setPath(
         [ref EXCEPT !.Scheme = u.Scheme, !.Host = u.Host,
                     !.RawQuery = IF ref.Path = <<>> /\ ~ref.ForceQuery /\ ref.RawQuery = <<>>
                                    THEN u.RawQuery ELSE ref.RawQuery,
                     !.Fragment = IF ref.Path = <<>> /\ ~ref.ForceQuery /\
                                     ref.RawQuery = <<>> /\ ref.Fragment = <<>>
                                    THEN u.Fragment ELSE ref.Fragment],
         resolvePath(EscapedPath(u), EscapedPath(ref)))

\* -------------------------------------------------- net/http Do: the URL
\* Do, "Add query parameters": q.Set for each entry of opts.QueryParams, the
\* keys visited in order o
HTTPDoQuery(reqURL, queryParams, o) ==
  IF DOMAIN queryParams = {} THEN reqURL
  ELSE [reqURL EXCEPT !.RawQuery =
          Encode(ValuesSetAll(ParseQuery(reqURL.RawQuery), queryParams, o))]

\* Do, "Construct the request URL": the path resolved against the base URL,
\* or parsed when there is no base URL
HTTPDoBase(baseURL, path) ==
  IF baseURL.ok
    THEN ResolveReference(baseURL, [ZeroURL EXCEPT !.Path = path])
    ELSE urlParse(path)

\* Do up to the request URL: an error, or the URL with the query added
HTTPDoURLFrom(reqURL, queryParams, o) ==
  IF ~reqURL.ok
    THEN [err |-> TRUE, url |-> NoURL]
    ELSE [err |-> FALSE, url |-> HTTPDoQuery(reqURL, queryParams, o)]

HTTPDoURL(baseURL, path, queryParams, o) ==
  HTTPDoURLFrom(HTTPDoBase(baseURL, path), queryParams, o)

\* ------------------------------------------------------------- httpclient2
\* httpclient2.New without options; a key missing from authConfig reads ""
New2 ==
  [baseURL |-> <<>>, defaultHeaders |-> EmptyMap, authMethod |-> "none",
   authConfig |-> [username |-> <<>>, password |-> <<>>, token |-> <<>>,
                   key |-> <<>>, location |-> <<>>]]

WithBasicAuth(c, username, password) ==
  [c EXCEPT !.authMethod = "basic", !.authConfig.username = username,
            !.authConfig.password = password]

WithBearerToken(c, token) ==
  [c EXCEPT !.authMethod = "bearer", !.authConfig.token = token]

WithAPIKey(c, key, location) ==
  [c EXCEPT !.authMethod = "apikey", !.authConfig.key = key,
            !.authConfig.location = location]

\* WithDefaultHeaders copies the entries into c.defaultHeaders
WithDefaultHeaders(c, headers) ==
  [c EXCEPT !.defaultHeaders =
     [k \in (DOMAIN c.defaultHeaders) \cup (DOMAIN headers) |->
        IF k \in DOMAIN headers THEN headers[k] ELSE c.defaultHeaders[k]]]

\* Client.applyAuthentication on the request's header
applyAuthenticationKeepsExisting(c, h) ==
  IF S_Authorization \in DOMAIN h THEN h
  ELSE IF c.authMethod = "basic" THEN
    HeaderSet(h, S_Authorization,
              S_Basic_ \o B64(c.authConfig.username \o <<":">> \o c.authConfig.password))
  ELSE IF c.authMethod = "bearer" THEN
    HeaderSet(h, S_Authorization, S_Bearer_ \o c.authConfig.token)
  ELSE IF c.authMethod = "apikey" /\ c.authConfig.location = S_header THEN
    HeaderSet(h, S_X_API_Key, c.authConfig.key)
  ELSE h
applyAuthentication(c, h) ==
  IF c.authMethod = "basic" THEN
    HeaderSet(h, S_Authorization,
              S_Basic_ \o B64(c.authConfig.username \o <<":">> \o c.authConfig.password))
  ELSE IF c.authMethod = "bearer" THEN
    HeaderSet(h, S_Authorization, S_Bearer_ \o c.authConfig.token)
  ELSE IF c.authMethod = "apikey" /\ c.authConfig.location = S_header THEN
    HeaderSet(h, S_X_API_Key, c.authConfig.key)
  ELSE h

\* httpclient2 Client.Do: default headers, request headers, authentication
Client2DoHeaders(c, headers, o1, o2) ==
  applyAuthentication(c, SetAll(SetAll(EmptyMap, c.defaultHeaders, o1), headers, o2))

\* for k, v := range m { query.Add(k, v) }, the keys visited in order o
RECURSIVE AddAll(_, _, _)
AddAll(q, m, o) ==
  IF o = <<>> THEN q ELSE AddAll(ValuesAdd(q, Head(o), m[Head(o)]), m, Tail(o))

\* Client.buildURL after url.Parse: add the caller's query, then the API key
buildParsed(c, r, o, parsedURL) ==
  IF ~parsedURL.ok
    THEN [err |-> TRUE, url |-> <<>>]
    ELSE [err |-> FALSE,
          url |-> urlString(
            [parsedURL EXCEPT !.RawQuery =
               Encode(IF c.authMethod = "apikey" /\ c.authConfig.location = S_query
                        THEN ValuesAdd(AddAll(ParseQuery(parsedURL.RawQuery), r.Query, o),
                                       S_api_key, c.authConfig.key)
                        ELSE AddAll(ParseQuery(parsedURL.RawQuery), r.Query, o))])]

\* Client.buildURL, req.Query ranged over in order o: the URL, or an error
buildURL(c, r, o) == buildParsed(c, r, o, urlParse(c.baseURL \o r.Path))

WithBaseURL(c, baseURL) == [c EXCEPT !.baseURL = baseURL]

\* ------------------------------------------------------------ header inputs
HeaderKeys == {S_Authorization, S_authorization, S_X_API_Key}
HeaderValues == {<<"X">>, <<"Y">>}
HeaderMaps == UNION {[K -> HeaderValues] : K \in SUBSET HeaderKeys}

\* the scenario of the specification: default Authorization X, request
\* Authorization Y
ScenarioDefaults == [k \in {S_Authorization} |-> <<"X">>]
ScenarioHeaders == [k \in {S_Authorization} |-> <<"Y">>]
\* the query of the net/http call: a=k
ScenarioQuery == [k \in {<<"a">>} |-> <<"k">>]

\* the authentication settings explored for httpclient2.Client
Auths2 ==
  {New2, WithBasicAuth(New2, <<"u">>, <<"p">>), WithBearerToken(New2, <<"T">>),
   WithAPIKey(New2, <<"k">>, S_header), WithAPIKey(New2, <<"k">>, S_query)}

\* --------------------------------------------------------------- URL inputs
BaseURLs == {<<>>, S_https_h, S_https_h_v1}
Paths == {S_p, S_p_api_key, S_p_z_f, S_colon}
QueryKeys == {<<"a">>, S_api_key, <<"b">>}
QueryValues == {<<"k">>, S_x_amp_y}
QueryMaps == UNION {[K -> QueryValues] : K \in SUBSET QueryKeys}
\* the base URLs of the net/http client: none, without and with a path,
\* with a query
HTTPBases ==
  {NilURL, urlParse(S_https_h), urlParse(S_https_h_v1),
   urlParse(S_https_h_v1 \o <<"?", "a", "=", "1">>)}
HTTPPaths == Paths \cup {<<>>, <<"p">>}

\* -------------------------------------------------------------------- state
VARIABLES
  maxRetries,       \* CommonHTTPClient.maxRetries
  retryBackoff,     \* CommonHTTPClient.retryBackoff
  disableLogBody,   \* CommonHTTPClient.disableLogBody
  defaultHeaders,   \* CommonHTTPClient.defaultHeaders
  baseURL,          \* CommonHTTPClient.baseURL
  disableLogHeaders, \* CommonHTTPClient.disableLogHeaders
  disableLogQuery,  \* CommonHTTPClient.disableLogQuery
  clientTimeout,    \* CommonHTTPClient.client.Timeout (0: none)
  ctxDeadline,      \* the deadline of the caller's context
  now,              \* the time
  deadline,         \* the deadline of the context that governs the request
  startedAt,        \* per send, when c.client.Do was called
  endedAt,          \* per send, when c.client.Do returned
  wakeAt,           \* when the time.Sleep under way returns
  opts,             \* the caller's RequestOptions
  ctxErr,           \* ctx.Err() of the governing context
  pc,               \* where the Do call stands
  req,              \* the *http.Request built by Do (Method, URL, Header, Body)
  attempt,          \* the loop counter of Do
  resp,             \* resp of Do
  lastErr,          \* lastErr of Do
  ret,              \* what Do returned: (resp, err)
  retBody,          \* the Body of the response Do returned
  log,              \* the events logRequest and logResponse emitted
  received,         \* per send, the header and body stream of the transport's response
  sends,            \* number of calls of c.client.Do
  captured,         \* per send, the body bytes the request offered the transport
  answers,          \* per send, the transport's answer
  waits,            \* number of time.Sleep calls started
  slept,            \* total time spent in time.Sleep
  cancelPc,         \* where the call stood when the context was done
  sendsAfterCancel, \* sends started after the context was done
  waitsAfterCancel, \* sleeps started after the context was done
  hdr,              \* one header merge: the client, its inputs and the outgoing header
  ub,               \* one httpclient2 buildURL call, run twice on the same inputs
  lg,               \* one logRequest and one logResponse call: inputs and events
  cc,               \* concurrent Do calls on one CommonHTTPClient
  d2                \* one httpclient2 Client.Do call: the caller's Request and the outcome

vars ==
  <<maxRetries, retryBackoff, disableLogBody, opts, ctxErr, pc, req, attempt, resp,
    lastErr, ret, sends, captured, answers, waits, slept, cancelPc,
    sendsAfterCancel, waitsAfterCancel, defaultHeaders, hdr, ub,
    baseURL, disableLogHeaders, disableLogQuery, retBody, log, received,
    clientTimeout, ctxDeadline, now, deadline, startedAt, endedAt, wakeAt, lg, cc, d2>>

config ==
  <<maxRetries, retryBackoff, disableLogBody, defaultHeaders, baseURL, disableLogHeaders,
    disableLogQuery, clientTimeout, ctxDeadline>>
\* what Do hands out besides its return values: the body of the returned
\* response, the log, the transport's response streams
effects == <<retBody, log, received>>
clock == <<now, deadline, startedAt, endedAt, wakeAt>>
\* the variables of the other specifications, which the net/http call leaves alone
others == <<hdr, ub, lg, cc, d2>>
history == <<sends, captured, answers, waits, slept>>
cancelHistory == <<cancelPc, sendsAfterCancel, waitsAfterCancel>>

\* a nil *http.Response
NilResp == [nil |-> TRUE, status |-> 0, n |-> 0]
\* a nil error
NilErr == [nil |-> TRUE, kind |-> "nil", n |-> 0]
\* the error of the n-th send (n = 0: an error raised before any send)
Err(kind, n) == [nil |-> FALSE, kind |-> kind, n |-> n]
\* the response of the n-th send
Resp(status, n) == [nil |-> FALSE, status |-> status, n |-> n]
\* a transport answer: kind "response" with a status, or an error kind
Outcome(kind, status) == [kind |-> kind, status |-> status]

NoReq ==
  [Method |-> <<>>, URL |-> NoURL, Header |-> EmptyMap, Body |-> NilReader, aliased |-> FALSE]

\* no buildURL call under way
UbIdle ==
  [client |-> "client2", c |-> New2, base |-> NilURL, Path |-> <<>>, Query |-> EmptyMap,
   done |-> TRUE, err |-> FALSE, url |-> <<>>, err2 |-> FALSE, url2 |-> <<>>]

\* no header merge under way
HdrIdle ==
  [client |-> "none", c2 |-> New2, defaultHeaders |-> EmptyMap, headers |-> EmptyMap,
   out |-> EmptyMap, done |-> TRUE]

\* no event
NoRequestEvent ==
  [msg |-> "", method |-> <<>>, url |-> <<>>, query |-> <<>>, headers |-> EmptyMap,
   body |-> <<>>]
NoResponseEvent == [msg |-> "", status_code |-> 0, headers |-> EmptyMap, body |-> <<>>]

\* no logRequest or logResponse call under way
LgIdle ==
  [pc |-> "done", req |-> NoReq, body |-> NilReader, status |-> 0, header |-> EmptyMap,
   responseBody |-> <<>>, reqEvent |-> NoRequestEvent, respEvent |-> NoResponseEvent]

\* no concurrent calls
CcIdle == [locals |-> <<>>, calls |-> <<>>]

\* the maps an httpclient2 Do call reaches: the caller's Headers and Query
\* maps, which the Request passed by value still refers to, and the
\* Header of the *http.Request it creates
NoMaps == [reqHeaders |-> EmptyMap, reqQuery |-> EmptyMap, header |-> EmptyMap]

\* no httpclient2 Do call under way
D2Idle ==
  [pc |-> "done", c |-> New2, Method |-> <<>>, Path |-> <<>>, Body |-> "nil",
   maps |-> NoMaps, before |-> NoMaps, fullURL |-> <<>>, httpReq |-> NoReq,
   ret |-> "none"]

\* a deadline that is never reached
NoDeadline == MaxTime + 1

Min(a, b) == IF a <= b THEN a ELSE b

\* the call has not started: time 0, the caller's context governs
ClockInit ==
  /\ now = 0
  /\ deadline = ctxDeadline
  /\ startedAt = <<>>
  /\ endedAt = <<>>
  /\ wakeAt = 0

\* a Do call about to start
NotStarted ==
  /\ ClockInit
  /\ retBody = NilReader
  /\ log = <<>>
  /\ received = <<>>
  /\ hdr = HdrIdle
  /\ ub = UbIdle
  /\ lg = LgIdle
  /\ cc = CcIdle
  /\ d2 = D2Idle
  /\ ctxErr = "nil"
  /\ pc = "start"
  /\ req = NoReq
  /\ attempt = 0
  /\ resp = NilResp
  /\ lastErr = NilErr
  /\ ret = [resp |-> NilResp, err |-> NilErr]
  /\ sends = 0
  /\ captured = <<>>
  /\ answers = <<>>
  /\ waits = 0
  /\ slept = 0
  /\ cancelPc = "never"
  /\ sendsAfterCancel = 0
  /\ waitsAfterCancel = 0

Init ==
  /\ clientTimeout = 0
  /\ ctxDeadline = NoDeadline
  /\ maxRetries \in 0..MaxRetriesBound
  /\ retryBackoff \in Backoffs
  /\ disableLogBody \in BOOLEAN
  /\ defaultHeaders = ScenarioDefaults
  /\ baseURL = urlParse(S_https_h_v1)
  /\ disableLogHeaders \in BOOLEAN
  /\ disableLogQuery = disableLogHeaders
  /\ opts \in [Path : {S_p}, Method : Methods, Headers : {ScenarioHeaders},
               QueryParams : {ScenarioQuery}, Body : BodyReaders, Timeout : {0, 5}]
  /\ NotStarted

\* ------------------------------------------------------------ net/http Do
\* the loop condition of Do: attempt <= c.maxRetries
LoopCondOffByOne(a) == a < maxRetries
LoopCondOneMore(a) == a <= maxRetries + 1
LoopCond(a) == a <= maxRetries

\* the outcomes the loop does not break on: an error, or a status >= 500
RetriableErrorsOnly(r, e) == ~e.nil
RetriableFrom400(r, e) == ~(e.nil /\ r.status < 400)
Retriable(r, e) == ~(e.nil /\ r.status < 500)

\* whether the loop sleeps after a retriable outcome: attempt < c.maxRetries
ShouldSleepNotLast(a) == a < maxRetries - 1
ShouldSleepAlways(a) == TRUE
ShouldSleep(a) == a < maxRetries

\* http.NewRequestWithContext: an empty method means GET, an invalid method
\* is an error; the body reader is wrapped, not copied.
NewRequestWithContext(method, url, body) ==
  LET m == IF method = <<>> THEN S_GET ELSE method IN
  IF ~validMethod(m) \/ ~urlParse(url).ok
    THEN [ok |-> FALSE, req |-> NoReq]
    ELSE [ok |-> TRUE,
          req |-> [Method |-> m, URL |-> urlParse(url), Header |-> EmptyMap, Body |-> body,
                   aliased |-> ~body.nil]]

\* logRequest's effect on the request: unless body logging is disabled, the
\* caller's reader is read to its end (or first error) and req.Body becomes a
\* fresh reader over the bytes that were read.
logRequestBody(r, body) ==
  IF ~disableLogBody /\ ~body.nil
    THEN [r EXCEPT !.Body = NewReader(Remaining(body)), !.aliased = FALSE]
    ELSE r

\* the caller's reader after logRequest
logRequestReader(body) ==
  IF ~disableLogBody /\ ~body.nil THEN Drained(body) ELSE body

\* the logging switches of the client
LogConfig ==
  [disableLogBody |-> disableLogBody, disableLogHeaders |-> disableLogHeaders,
   disableLogQuery |-> disableLogQuery]

\* logRequest's "Outgoing request" event for request r and the caller's
\* reader: the body is what a read of the reader to its end yields, nothing
\* when that read fails
logRequest(c, r, body) ==
  [msg |-> "Outgoing request", method |-> r.Method, url |-> urlString(r.URL),
   query |-> IF c.disableLogQuery THEN <<>> ELSE r.URL.RawQuery,
   headers |-> IF c.disableLogHeaders THEN EmptyMap ELSE r.Header,
   body |-> IF ~c.disableLogBody /\ ~body.nil /\ ~ReadFails(body)
              THEN Remaining(body) ELSE <<>>]

\* logResponse's "Incoming response" event
logResponse(c, status, header, responseBody) ==
  [msg |-> "Incoming response", status_code |-> status,
   headers |-> IF c.disableLogHeaders THEN EmptyMap ELSE header,
   body |-> IF ~c.disableLogBody /\ Len(responseBody) > 0 THEN responseBody ELSE <<>>]

\* Do from the new request to the retry loop: headers, logRequest
DoPrepareRequest(r) ==
  /\ pc' = IF LoopCond(0) THEN "send" ELSE "after"
  /\ \E o1 \in Orders(DOMAIN defaultHeaders), o2 \in Orders(DOMAIN opts.Headers) :
       /\ req' = logRequestBody(
                   [r EXCEPT !.Header = HTTPDoHeaders(defaultHeaders, opts.Headers, o1, o2)],
                   opts.Body)
       /\ log' = Append(log,
                    logRequest(LogConfig,
                      [r EXCEPT !.Header = HTTPDoHeaders(defaultHeaders, opts.Headers, o1, o2)],
                      opts.Body))
  /\ opts' = [opts EXCEPT !.Body = logRequestReader(opts.Body)]
  /\ deadline' = IF opts.Timeout > 0 THEN Min(deadline, now + opts.Timeout) ELSE deadline
  /\ UNCHANGED ret

\* Do returns an error before the request exists
DoFail(kind) ==
  /\ pc' = "done"
  /\ ret' = [resp |-> NilResp, err |-> Err(kind, 0)]
  /\ UNCHANGED <<req, opts, log, deadline>>

\* Do from the request URL on
DoPrepareFrom(u) ==
  IF u.err THEN DoFail("URLError")
  ELSE \E r \in {NewRequestWithContext(opts.Method, urlString(u.url), opts.Body)} :
         IF ~r.ok THEN DoFail("InvalidMethod") ELSE DoPrepareRequest(r.req)

\* Do up to the retry loop: build the URL and the request, log it.
DoPrepare ==
  /\ pc = "start"
  /\ \E o \in Orders(DOMAIN opts.QueryParams) :
       \E u \in {HTTPDoURL(baseURL, opts.Path, opts.QueryParams, o)} : DoPrepareFrom(u)
  /\ attempt' = 0
  /\ UNCHANGED <<config, others, ctxErr, resp, lastErr, history, cancelHistory, retBody,
                 received, now, startedAt, endedAt, wakeAt>>

\* c.client.Do(req) is called: the transport is handed the request.
SendStart ==
  /\ pc = "send"
  /\ pc' = "inflight"
  /\ sends' = sends + 1
  /\ captured' = Append(captured, Remaining(req.Body))
  /\ sendsAfterCancel' = IF ctxErr # "nil" THEN sendsAfterCancel + 1 ELSE sendsAfterCancel
  /\ startedAt' = Append(startedAt, now)
  /\ UNCHANGED <<config, others, opts, ctxErr, req, attempt, resp, lastErr, ret, answers, waits,
                 slept, cancelPc, waitsAfterCancel, effects, now, deadline, endedAt, wakeAt>>

\* the request body after the transport read n bytes of it; an aliased body
\* is the caller's reader itself
ConsumeBody(n) ==
  /\ req' = [req EXCEPT !.Body = Advance(req.Body, n)]
  /\ opts' = IF req.aliased THEN [opts EXCEPT !.Body = Advance(opts.Body, n)] ELSE opts

\* attempt++ and the loop condition
NextIteration ==
  /\ attempt' = attempt + 1
  /\ pc' = IF LoopCond(attempt + 1) THEN "send" ELSE "after"

\* the loop body after c.client.Do returned (r, e)
AfterSend(r, e) ==
  /\ resp' = r
  /\ lastErr' = e
  /\ endedAt' = Append(endedAt, now)
  /\ IF ~Retriable(r, e)
       THEN /\ pc' = "after"
            /\ UNCHANGED <<attempt, waits, waitsAfterCancel, wakeAt>>
       ELSE IF ShouldSleep(attempt)
         THEN /\ pc' = "backoff"
              /\ waits' = waits + 1
              /\ wakeAt' = now + retryBackoff
              /\ waitsAfterCancel' =
                   IF ctxErr # "nil" THEN waitsAfterCancel + 1 ELSE waitsAfterCancel
              /\ UNCHANGED attempt
         ELSE /\ NextIteration
              /\ UNCHANGED <<waits, waitsAfterCancel, wakeAt>>

\* what the transport hands back with the response to send n: a header
\* and an unread body stream whose bytes tell the responses apart
TransportHeader == [k \in {S_Date} |-> <<<<"t">>>>]
TransportBody(s, n) == <<s, n>>
Received(s, n) ==
  [header |-> TransportHeader, body |-> NewReader(TransportBody(s, n)), reads |-> 0,
   closed |-> FALSE]
\* a send that ended in an error hands back no response
NotReceived == [header |-> EmptyMap, body |-> NilReader, reads |-> 0, closed |-> FALSE]

\* c.client.Do returns a response: the transport has read the whole body.
SendResponse ==
  /\ pc = "inflight"
  /\ ctxErr = "nil"
  /\ ~ReadFails(req.Body)
  /\ \E s \in Statuses :
       /\ answers' = Append(answers, Outcome("response", s))
       /\ received' = Append(received, Received(s, sends))
       /\ AfterSend(Resp(s, sends), NilErr)
  /\ ConsumeBody(Len(Remaining(req.Body)))
  /\ UNCHANGED <<config, others, ctxErr, ret, sends, captured, slept, cancelPc, sendsAfterCancel,
                 retBody, log, now, deadline, startedAt>>

\* c.client.Do returns an error: the context's error when the context is
\* done, a transport error otherwise. The transport has read some of the body.
SendError ==
  /\ pc = "inflight"
  /\ LET kind == IF ctxErr # "nil" THEN ctxErr ELSE "TransportError" IN
       /\ answers' = Append(answers, Outcome(kind, 0))
       /\ received' = Append(received, NotReceived)
       /\ AfterSend(NilResp, Err(kind, sends))
  /\ \E n \in 0..Len(Remaining(req.Body)) : ConsumeBody(n)
  /\ UNCHANGED <<config, others, ctxErr, ret, sends, captured, slept, cancelPc, sendsAfterCancel,
                 retBody, log, now, deadline, startedAt>>

\* time.Sleep(c.retryBackoff) returns; attempt++ and the next iteration.
Wake ==
  /\ pc = "backoff"
  /\ slept' = slept + retryBackoff
  /\ NextIteration
  /\ UNCHANGED <<config, others, opts, ctxErr, req, resp, lastErr, ret, sends, captured, answers,
                 waits, cancelHistory, effects, clock>>

\* what Do returns after the loop for resp r and lastErr e: the final
\* error; or, the response body read (readOK: io.ReadAll succeeded), the
\* response with a nil error, or the read error. With no response and no
\* error resp.Body dereferences nil.
DoReturnErrorOn5xx(r, e, readOK) ==
  IF ~e.nil THEN [resp |-> NilResp, err |-> e]
  ELSE IF r.status >= 500 THEN [resp |-> NilResp, err |-> Err("ServerError", r.n)]
  ELSE IF ~readOK THEN [resp |-> NilResp, err |-> Err("ReadError", r.n)]
  ELSE [resp |-> r, err |-> NilErr]
DoReturnSwallowsError(r, e, readOK) ==
  IF ~e.nil THEN [resp |-> NilResp, err |-> NilErr]
  ELSE IF ~readOK THEN [resp |-> NilResp, err |-> Err("ReadError", r.n)]
  ELSE [resp |-> r, err |-> NilErr]
DoReturn(r, e, readOK) ==
  IF ~e.nil THEN [resp |-> NilResp, err |-> e]
  ELSE IF r.nil THEN [resp |-> NilResp, err |-> Err("panic", 0)]
  ELSE IF ~readOK THEN [resp |-> NilResp, err |-> Err("ReadError", r.n)]
  ELSE [resp |-> r, err |-> NilErr]

\* resp.Body = io.NopCloser(bytes.NewReader(responseBody)): the body the
\* caller gets, given the transport's stream after io.ReadAll and the bytes
\* read
ReplaceBodyKeepsStream(stream, responseBody) == stream
ReplaceBody(stream, responseBody) == NewReader(responseBody)

\* Do after the loop with a response r whose body stream is b: io.ReadAll,
\* and when the read succeeded the replaced body and logResponse. The
\* deferred function closes what resp.Body is when Do returns: the
\* transport's stream after a failed read, the replacement otherwise.
FinishResponse(r, b) ==
  /\ ret' = DoReturn(r, NilErr, ~ReadFails(b))
  /\ received' = [received EXCEPT ![r.n] =
                    [@ EXCEPT !.body = Drained(b), !.reads = @ + 1, !.closed = ReadFails(b)]]
  /\ IF ReadFails(b)
       THEN UNCHANGED <<retBody, log>>
       ELSE /\ retBody' = ReplaceBody(Drained(b), Remaining(b))
            /\ log' = Append(log, logResponse(LogConfig, r.status, received[r.n].header,
                                              Remaining(b)))

\* Do after the loop. Reading the response body may fail at any byte.
Finish ==
  /\ pc = "after"
  /\ pc' = "done"
  /\ IF ~lastErr.nil \/ resp.nil
       THEN /\ ret' = DoReturn(resp, lastErr, TRUE)
            /\ UNCHANGED effects
       ELSE \E f \in -1..(Len(received[resp.n].body.data) - 1) :
              FinishResponse(resp, [received[resp.n].body EXCEPT !.failAt = f])
  /\ UNCHANGED <<config, others, opts, ctxErr, req, attempt, resp, lastErr, history, cancelHistory,
                 clock>>

\* the caller cancels the context
Cancel ==
  /\ pc # "done"
  /\ ctxErr = "nil"
  /\ ctxErr' = "Canceled"
  /\ cancelPc' = pc
  /\ UNCHANGED <<config, others, opts, pc, req, attempt, resp, lastErr, ret, history,
                 sendsAfterCancel, waitsAfterCancel, effects, clock>>

\* the deadline of context.WithTimeout(ctx, opts.Timeout) elapses
DeadlineElapse ==
  /\ pc \notin {"start", "done"}
  /\ opts.Timeout > 0
  /\ ctxErr = "nil"
  /\ ctxErr' = "DeadlineExceeded"
  /\ cancelPc' = pc
  /\ UNCHANGED <<config, others, opts, pc, req, attempt, resp, lastErr, ret, history,
                 sendsAfterCancel, waitsAfterCancel, effects, clock>>

Next ==
  \/ DoPrepare
  \/ SendStart
  \/ SendResponse
  \/ SendError
  \/ Wake
  \/ Finish
  \/ Cancel
  \/ DeadlineElapse

Spec == Init /\ [][Next]_vars

\* ------------------------------------------- net/http Do running to its end
\* calls without a request body, on a client that logs everything
InitLive ==
  /\ Init
  /\ ~disableLogBody
  /\ ~disableLogHeaders
  /\ opts.Body = NilReader
  /\ opts.Method \in {S_GET, S_BADMETHOD}

\* the steps of the retry loop and after: a send starts, the transport
\* answers it, time.Sleep returns, Do returns
LoopStep == SendStart \/ SendResponse \/ SendError \/ Wake \/ Finish

\* Do is called: DoPrepare, enabled exactly while pc = "start", is taken
Started == pc # "start"

\* the goroutine keeps running, the transport answers every send and every
\* time.Sleep returns; the context is cancelled or not
SpecLive == InitLive /\ [][Next]_vars /\ WF_vars(LoopStep) /\ []<>Started

\* ------------------------------------------- net/http Do with time passing
\* the timeouts explored: of the http.Client, of the caller's context, of
\* the request
ClientTimeouts == {0, 2}
CtxDeadlines == {NoDeadline, 4}
RequestTimeouts == {0, 3}
TimedBackoffs == {0, 2}
TimedRetries == {0, 1}

InitTime ==
  /\ clientTimeout \in ClientTimeouts
  /\ ctxDeadline \in CtxDeadlines
  /\ maxRetries \in TimedRetries
  /\ retryBackoff \in TimedBackoffs
  /\ disableLogBody = FALSE
  /\ defaultHeaders = ScenarioDefaults
  /\ baseURL = urlParse(S_https_h_v1)
  /\ disableLogHeaders = FALSE
  /\ disableLogQuery = FALSE
  /\ opts \in [Path : {S_p}, Method : {S_GET}, Headers : {ScenarioHeaders},
               QueryParams : {ScenarioQuery}, Body : {NilReader}, Timeout : RequestTimeouts]
  /\ NotStarted

\* when the http.Client's timer of the send under way fires
ClientExpiry == startedAt[sends] + clientTimeout

\* neither the context's deadline nor the http.Client's timer has fired
SendInTime == now < deadline /\ (clientTimeout = 0 \/ now < ClientExpiry)

\* time passes: during a send while no timer ends it, during time.Sleep
\* until it returns; a context whose deadline has come is done first
Tick ==
  /\ now < MaxTime
  /\ ctxErr = "nil" => now < deadline
  /\ \/ pc = "inflight" /\ ctxErr = "nil" /\ (clientTimeout = 0 \/ now < ClientExpiry)
     \/ pc = "backoff" /\ now < wakeAt
  /\ now' = now + 1
  /\ UNCHANGED <<config, others, opts, ctxErr, pc, req, attempt, resp, lastErr, ret, history,
                 cancelHistory, effects, deadline, startedAt, endedAt, wakeAt>>

\* the deadline of the governing context has come
DeadlineReached ==
  /\ pc # "done"
  /\ ctxErr = "nil"
  /\ now >= deadline
  /\ ctxErr' = "DeadlineExceeded"
  /\ cancelPc' = pc
  /\ UNCHANGED <<config, others, opts, pc, req, attempt, resp, lastErr, ret, history,
                 sendsAfterCancel, waitsAfterCancel, effects, clock>>

\* c.client.Do returns the error of the http.Client's own Timeout
ClientTimeoutElapse ==
  /\ pc = "inflight"
  /\ clientTimeout > 0
  /\ now >= ClientExpiry
  /\ answers' = Append(answers, Outcome("ClientTimeout", 0))
  /\ received' = Append(received, NotReceived)
  /\ AfterSend(NilResp, Err("ClientTimeout", sends))
  /\ \E n \in 0..Len(Remaining(req.Body)) : ConsumeBody(n)
  /\ UNCHANGED <<config, others, ctxErr, ret, sends, captured, slept, cancelPc, sendsAfterCancel,
                 retBody, log, now, deadline, startedAt>>

\* a response arrives before a timer ends the send
TimedSendResponse == pc = "inflight" /\ SendInTime /\ SendResponse

\* the send fails: at once when the context is done
TimedSendError == pc = "inflight" /\ SendError

\* time.Sleep returns when its duration has passed
TimedWake == pc = "backoff" /\ now >= wakeAt /\ Wake

NextTime ==
  \/ DoPrepare
  \/ SendStart
  \/ TimedSendResponse
  \/ TimedSendError
  \/ ClientTimeoutElapse
  \/ DeadlineReached
  \/ TimedWake
  \/ Finish
  \/ Tick

SpecTime == InitTime /\ [][NextTime]_vars

\* a net/http client that is not used
ConfigIdle ==
  /\ maxRetries = 0
  /\ retryBackoff = 0
  /\ disableLogBody = FALSE
  /\ defaultHeaders = EmptyMap
  /\ baseURL = NilURL
  /\ clientTimeout = 0
  /\ ctxDeadline = NoDeadline
  /\ disableLogHeaders = FALSE
  /\ disableLogQuery = FALSE

\* no net/http Do call under way on the client
CallIdle ==
  /\ ClockInit
  /\ opts = [Path |-> <<>>, Method |-> S_GET, Headers |-> EmptyMap, QueryParams |-> EmptyMap,
             Body |-> NilReader, Timeout |-> 0]
  /\ retBody = NilReader
  /\ log = <<>>
  /\ received = <<>>
  /\ ctxErr = "nil"
  /\ pc = "idle"
  /\ req = NoReq
  /\ attempt = 0
  /\ resp = NilResp
  /\ lastErr = NilErr
  /\ ret = [resp |-> NilResp, err |-> NilErr]
  /\ sends = 0
  /\ captured = <<>>
  /\ answers = <<>>
  /\ waits = 0
  /\ slept = 0
  /\ cancelPc = "never"
  /\ sendsAfterCancel = 0
  /\ waitsAfterCancel = 0

MainIdle == ConfigIdle /\ CallIdle

\* the variables of one net/http Do call
call ==
  <<opts, ctxErr, pc, req, attempt, resp, lastErr, ret, history, cancelHistory, effects, clock>>

main ==
  <<maxRetries, retryBackoff, disableLogBody, defaultHeaders, opts, ctxErr, pc, req,
    attempt, resp, lastErr, ret, sends, captured, answers, waits, slept, cancelPc,
    sendsAfterCancel, waitsAfterCancel, baseURL, disableLogHeaders, disableLogQuery,
    retBody, log, received, clientTimeout, ctxDeadline, now, deadline, startedAt, endedAt,
    wakeAt>>

\* ------------------------------------------- the header merge of each client
Clients == {"http", "resty", "client2"}

InitHeaders ==
  /\ MainIdle
  /\ ub = UbIdle
  /\ lg = LgIdle
  /\ cc = CcIdle
  /\ d2 = D2Idle
  /\ hdr \in {h \in [client : Clients, c2 : Auths2, defaultHeaders : HeaderMaps,
                     headers : HeaderMaps, out : {EmptyMap}, done : {FALSE}] :
                h.client # "client2" => h.c2 = New2}

\* the header of the request a client's Do sends, the maps ranged over in
\* the orders o1 and o2
DoHeaders(h, o1, o2) ==
  IF h.client = "http" THEN HTTPDoHeaders(h.defaultHeaders, h.headers, o1, o2)
  ELSE IF h.client = "resty" THEN RestyDoHeaders(h.defaultHeaders, h.headers, o1, o2)
  ELSE Client2DoHeaders(WithDefaultHeaders(h.c2, h.defaultHeaders), h.headers, o1, o2)

MergeHeaders ==
  /\ ~hdr.done
  /\ \E o1 \in Orders(DOMAIN hdr.defaultHeaders), o2 \in Orders(DOMAIN hdr.headers) :
       hdr' = [hdr EXCEPT !.out = DoHeaders(hdr, o1, o2), !.done = TRUE]
  /\ UNCHANGED <<main, ub, lg, cc, d2>>

NextHeaders == MergeHeaders

SpecHeaders == InitHeaders /\ [][NextHeaders]_vars

\* ------------------------------- concurrent net/http Do calls on one client
\* The client's fields are the configuration variables, read by every call.
\* The local variables of a call (ctx, attempt, resp, lastErr, responseBody)
\* live in the frame of that call.
FrameShared(i) == 1
Frame(i) == i

ConcRetries == {0, 1}
ConcOutcomes == {Outcome("response", 200), Outcome("response", 503), Outcome("TransportError", 0)}

\* the locals of a call before it starts
NoLocals ==
  [deadline |-> NoDeadline, attempt |-> 0, resp |-> NilResp, lastErr |-> NilErr,
   responseBody |-> <<>>]

\* the body the transport sends with the response to send n of call i
ConcBody(i, s, n) == <<i, s, n>>

InitConc ==
  /\ maxRetries \in ConcRetries
  /\ retryBackoff = 0
  /\ disableLogBody = FALSE
  /\ defaultHeaders = EmptyMap
  /\ baseURL = NilURL
  /\ clientTimeout = 0
  /\ ctxDeadline = NoDeadline
  /\ disableLogHeaders = FALSE
  /\ disableLogQuery = FALSE
  /\ CallIdle
  /\ hdr = HdrIdle
  /\ ub = UbIdle
  /\ lg = LgIdle
  /\ d2 = D2Idle
  /\ \E ts \in [1..MaxCalls -> RequestTimeouts] :
       cc = [locals |-> [i \in 1..MaxCalls |-> NoLocals],
             calls |-> [i \in 1..MaxCalls |->
                          [pc |-> "start", timeout |-> ts[i], sends |-> 0, answers |-> <<>>,
                           deadlines |-> <<>>, ret |-> [resp |-> NilResp, err |-> NilErr],
                           body |-> NilReader]]]

\* the locals of call i
Locals(i) == cc.locals[Frame(i)]

\* call i enters Do: the per-request timeout, attempt = 0
ConcStart(i) ==
  /\ cc.calls[i].pc = "start"
  /\ cc' = [cc EXCEPT
       !.locals[Frame(i)] =
          [NoLocals EXCEPT !.deadline = IF cc.calls[i].timeout > 0
                                          THEN Min(ctxDeadline, cc.calls[i].timeout)
                                          ELSE ctxDeadline],
       !.calls[i].pc = IF LoopCond(0) THEN "send" ELSE "after"]
  /\ UNCHANGED <<main, hdr, ub, lg, d2>>

\* the loop body of call i after c.client.Do returned (r, e)
ConcAfterSend(i, o, r, e) ==
  cc' = [cc EXCEPT
    !.locals[Frame(i)] =
       [@ EXCEPT !.resp = r, !.lastErr = e,
                 !.attempt = IF Retriable(r, e) /\ ~ShouldSleep(@) THEN @ + 1 ELSE @],
    !.calls[i] =
       [@ EXCEPT !.sends = @ + 1,
                 !.answers = Append(@, o),
                 !.deadlines = Append(@, Locals(i).deadline),
                 !.pc = IF ~Retriable(r, e) THEN "after"
                        ELSE IF ShouldSleep(Locals(i).attempt) THEN "backoff"
                        ELSE IF LoopCond(Locals(i).attempt + 1) THEN "send" ELSE "after"]]

\* call i sends and the transport answers
ConcSend(i) ==
  /\ cc.calls[i].pc = "send"
  /\ \E o \in ConcOutcomes :
       ConcAfterSend(i, o,
         IF o.kind = "response" THEN Resp(o.status, cc.calls[i].sends + 1) ELSE NilResp,
         IF o.kind = "response" THEN NilErr ELSE Err(o.kind, cc.calls[i].sends + 1))
  /\ UNCHANGED <<main, hdr, ub, lg, d2>>

\* time.Sleep of call i returns; attempt++
ConcWake(i) ==
  /\ cc.calls[i].pc = "backoff"
  /\ cc' = [cc EXCEPT
       !.locals[Frame(i)].attempt = @ + 1,
       !.calls[i].pc = IF LoopCond(Locals(i).attempt + 1) THEN "send" ELSE "after"]
  /\ UNCHANGED <<main, hdr, ub, lg, d2>>

\* call i after the loop: the error, or the response with its body read
\* into responseBody and replaced
ConcFinish(i) ==
  /\ cc.calls[i].pc = "after"
  /\ LET r == Locals(i).resp
         b == IF r.nil THEN <<>> ELSE ConcBody(i, r.status, r.n)
     IN cc' = [cc EXCEPT
          !.locals[Frame(i)].responseBody = b,
          !.calls[i].pc = "done",
          !.calls[i].ret = DoReturn(r, Locals(i).lastErr, TRUE),
          !.calls[i].body = IF Locals(i).lastErr.nil /\ ~r.nil
                              THEN ReplaceBody(NewReader(b), b) ELSE NilReader]
  /\ UNCHANGED <<main, hdr, ub, lg, d2>>

NextConc ==
  \/ \E i \in 1..MaxCalls : ConcStart(i)
  \/ \E i \in 1..MaxCalls : ConcSend(i)
  \/ \E i \in 1..MaxCalls : ConcWake(i)
  \/ \E i \in 1..MaxCalls : ConcFinish(i)

SpecConc == InitConc /\ [][NextConc]_vars

\* ------------------------------------------- logRequest and logResponse
\* the requests logged: with and without a header, with and without a query
LoggedHeaders == {EmptyMap, HTTPDoHeaders(EmptyMap, ScenarioHeaders, <<>>, <<S_Authorization>>)}
LoggedURLs == {S_https_h \o S_p, S_https_h \o S_p_api_key}
LoggedRequests ==
  {[NewRequestWithContext(S_POST, u, b).req EXCEPT !.Header = h] :
     u \in LoggedURLs, b \in BodyReaders, h \in LoggedHeaders}

InitLog ==
  /\ maxRetries = 0
  /\ retryBackoff = 0
  /\ defaultHeaders = EmptyMap
  /\ baseURL = NilURL
  /\ clientTimeout = 0
  /\ ctxDeadline = NoDeadline
  /\ disableLogBody \in BOOLEAN
  /\ disableLogHeaders \in BOOLEAN
  /\ disableLogQuery \in BOOLEAN
  /\ CallIdle
  /\ hdr = HdrIdle
  /\ ub = UbIdle
  /\ cc = CcIdle
  /\ d2 = D2Idle
  /\ lg \in {[pc |-> "request", req |-> r, body |-> r.Body, status |-> s, header |-> h,
              responseBody |-> b, reqEvent |-> NoRequestEvent,
              respEvent |-> NoResponseEvent] :
               r \in LoggedRequests, s \in {200, 500}, h \in {EmptyMap, TransportHeader},
               b \in Bodies}

\* c.logRequest(req, opts.Body): the event, and the request and the caller's
\* reader afterwards
LogRequest ==
  /\ lg.pc = "request"
  /\ lg' = [lg EXCEPT !.pc = "response",
                      !.reqEvent = logRequest(LogConfig, lg.req, lg.body),
                      !.req = logRequestBody(lg.req, lg.body),
                      !.body = logRequestReader(lg.body)]
  /\ UNCHANGED <<main, hdr, ub, cc, d2>>

\* c.logResponse(resp, responseBody)
LogResponse ==
  /\ lg.pc = "response"
  /\ lg' = [lg EXCEPT !.pc = "done",
                      !.respEvent = logResponse(LogConfig, lg.status, lg.header,
                                                lg.responseBody)]
  /\ UNCHANGED <<main, hdr, ub, cc, d2>>

NextLog == LogRequest \/ LogResponse

SpecLog == InitLog /\ [][NextLog]_vars

\* ------------------------------------------------ httpclient2 buildURL
InitURL ==
  /\ MainIdle
  /\ hdr = HdrIdle
  /\ lg = LgIdle
  /\ cc = CcIdle
  /\ d2 = D2Idle
  /\ ub \in {[UbIdle EXCEPT !.c = WithBaseURL(a, b), !.Path = p, !.Query = q,
                             !.done = FALSE] :
               a \in Auths2, b \in BaseURLs, p \in Paths, q \in QueryMaps}
            \cup
            {[UbIdle EXCEPT !.client = "http", !.base = b, !.Path = p, !.Query = q,
                             !.done = FALSE] :
               b \in HTTPBases, p \in HTTPPaths, q \in QueryMaps}

\* the record of two runs of buildURL
BuiltTwice(u, r1, r2) ==
  [u EXCEPT !.done = TRUE, !.err = r1.err, !.url = r1.url, !.err2 = r2.err, !.url2 = r2.url]

\* two runs of buildURL on the same client and request, each ranging
\* over req.Query in an order of its own
BuildURL ==
  /\ ~ub.done
  /\ ub.client = "client2"
  /\ \E o1 \in Orders(DOMAIN ub.Query), o2 \in Orders(DOMAIN ub.Query) :
       ub' = BuiltTwice(ub, buildURL(ub.c, ub, o1), buildURL(ub.c, ub, o2))
  /\ UNCHANGED <<main, hdr, lg, cc, d2>>

\* the string the net/http Do hands to http.NewRequestWithContext, or an error
HTTPDoURLString(r) == [err |-> r.err, url |-> IF r.err THEN <<>> ELSE urlString(r.url)]

\* two runs of the URL construction of the net/http Do on the same client
\* and options, each ranging over opts.QueryParams in an order of its own
BuildHTTPURL ==
  /\ ~ub.done
  /\ ub.client = "http"
  /\ \E o1 \in Orders(DOMAIN ub.Query), o2 \in Orders(DOMAIN ub.Query) :
       ub' = BuiltTwice(ub, HTTPDoURLString(HTTPDoURL(ub.base, ub.Path, ub.Query, o1)),
                        HTTPDoURLString(HTTPDoURL(ub.base, ub.Path, ub.Query, o2)))
  /\ UNCHANGED <<main, hdr, lg, cc, d2>>

NextURL == BuildURL \/ BuildHTTPURL

SpecURL == InitURL /\ [][NextURL]_vars

\* ------------------------------------------------------ httpclient2 Do
\* the request bodies: none, a value json.Marshal encodes, a value it rejects
Bodies2 == {"nil", "value", "unmarshalable"}
Headers2 == {h \in HeaderMaps : DOMAIN h \subseteq {S_Authorization, S_X_API_Key}}
Queries2 == {q \in QueryMaps : DOMAIN q \subseteq {<<"a">>, S_api_key}}
Defaults2 == {EmptyMap, ScenarioDefaults}

InitDo2 ==
  /\ MainIdle
  /\ hdr = HdrIdle
  /\ ub = UbIdle
  /\ lg = LgIdle
  /\ cc = CcIdle
  /\ d2 \in {[D2Idle EXCEPT !.pc = "buildURL",
                             !.c = WithDefaultHeaders(WithBaseURL(a, u), d),
                             !.Method = m, !.Path = p, !.Body = b,
                             !.maps = [NoMaps EXCEPT !.reqHeaders = h, !.reqQuery = q],
                             !.before = [NoMaps EXCEPT !.reqHeaders = h, !.reqQuery = q]] :
               a \in Auths2, u \in {<<>>, S_https_h}, d \in Defaults2,
               m \in {S_GET, S_BADMETHOD},
               p \in {S_p, S_colon}, b \in Bodies2, h \in Headers2, q \in Queries2}

\* return nil, fmt.Errorf(...)
Do2Fail(kind) == d2' = [d2 EXCEPT !.pc = "done", !.ret = kind]

\* fullURL, err := c.buildURL(req)
Do2BuildURLFrom(r) ==
  IF r.err THEN Do2Fail("failed to build URL")
  ELSE d2' = [d2 EXCEPT !.pc = "marshal", !.fullURL = r.url]

Do2BuildURL ==
  /\ d2.pc = "buildURL"
  /\ \E o \in Orders(DOMAIN d2.maps.reqQuery) :
       Do2BuildURLFrom(buildURL(d2.c, [Path |-> d2.Path, Query |-> d2.maps.reqQuery], o))
  /\ UNCHANGED <<main, hdr, ub, lg, cc>>

\* the reader over json.Marshal(req.Body), nil without a body
Body2 == IF d2.Body = "nil" THEN NilReader ELSE NewReader(<<"1">>)

\* httpReq, err := http.NewRequestWithContext(ctx, req.Method, fullURL, body)
Do2NewRequestFrom(r) ==
  IF ~r.ok THEN Do2Fail("failed to create request")
  ELSE d2' = [d2 EXCEPT !.pc = "headers", !.httpReq = r.req,
                        !.maps.header = r.req.Header]

\* the body is marshalled and the request created
Do2NewRequest ==
  /\ d2.pc = "marshal"
  /\ IF d2.Body = "unmarshalable" THEN Do2Fail("failed to marshal request body")
     ELSE Do2NewRequestFrom(NewRequestWithContext(d2.Method, d2.fullURL, Body2))
  /\ UNCHANGED <<main, hdr, ub, lg, cc>>

\* the two loops of Do: httpReq.Header.Set of the default headers, then of
\* the request's, the maps ranged over in the orders o1 and o2
Do2SetHeaders(maps, c, o1, o2) ==
  [maps EXCEPT !.header = SetAll(SetAll(maps.header, c.defaultHeaders, o1),
                                 maps.reqHeaders, o2)]

Do2Headers ==
  /\ d2.pc = "headers"
  /\ \E o1 \in Orders(DOMAIN d2.c.defaultHeaders), o2 \in Orders(DOMAIN d2.maps.reqHeaders) :
       d2' = [d2 EXCEPT !.pc = "auth", !.maps = Do2SetHeaders(d2.maps, d2.c, o1, o2)]
  /\ UNCHANGED <<main, hdr, ub, lg, cc>>

\* a Set of the Authorization header on the caller's Headers map
applyAuthenticationToCaller(maps, c) ==
  [maps EXCEPT !.reqHeaders =
     [k \in (DOMAIN maps.reqHeaders) \cup {S_Authorization} |->
        IF k = S_Authorization THEN c.authConfig.token ELSE maps.reqHeaders[k]]]

\* c.applyAuthentication(httpReq): it writes the Header of httpReq
applyAuthenticationTo(maps, c) ==
  [maps EXCEPT !.header = applyAuthentication(c, maps.header)]

Do2Auth ==
  /\ d2.pc = "auth"
  /\ d2' = [d2 EXCEPT !.pc = "send", !.maps = applyAuthenticationTo(d2.maps, d2.c)]
  /\ UNCHANGED <<main, hdr, ub, lg, cc>>

\* return c.httpClient.Do(httpReq): a response or an error
Do2Send ==
  /\ d2.pc = "send"
  /\ \E r \in {"response", "send error"} : d2' = [d2 EXCEPT !.pc = "done", !.ret = r]
  /\ UNCHANGED <<main, hdr, ub, lg, cc>>

NextDo2 == Do2BuildURL \/ Do2NewRequest \/ Do2Headers \/ Do2Auth \/ Do2Send

SpecDo2 == InitDo2 /\ [][NextDo2]_vars

\* ===================================================================
\* Properties of the net/http CommonHTTPClient.Do (specification Spec)
\* ===================================================================
Done == pc = "done"

\* Do got as far as the retry loop (http.NewRequestWithContext succeeded)
ReachedLoop == pc \notin {"start", "idle"} /\ ret.err.kind # "InvalidMethod"

\* the context was never cancelled and its deadline never elapsed
NoCancellation == cancelPc = "never"

\* every answer so far is a response with a status in S
AllAnswered(S) ==
  \A i \in 1..Len(answers) : answers[i].kind = "response" /\ answers[i].status \in S

ServerStatuses == {s \in Statuses : s >= 500}

\* C1: with maxRetries = N >= 0 and no cancellation, a transport that
\* answers every send with 503 sees exactly N+1 sends before Do returns.
C1_Always503SendsNPlus1 ==
  (Done /\ ReachedLoop /\ NoCancellation /\ AllAnswered({503})) => sends = maxRetries + 1

C1_Witness ==
  /\ Done /\ ReachedLoop /\ NoCancellation /\ AllAnswered({503})
  /\ maxRetries = MaxRetriesBound
  /\ sends = MaxRetriesBound + 1

\* every one of the N+1 sends was answered with a 5xx status
Exhausted5xx == Done /\ ReachedLoop /\ sends = maxRetries + 1 /\ AllAnswered(ServerStatuses)

GoodBody == ~opts.Body.nil /\ opts.Body.failAt = -1 /\ Len(opts.Body.data) > 0

\* C3 as claimed: with a non-empty request body B, every send of the call
\* offers the transport exactly the bytes B, whatever disableLogBody is.
C3_Claim_EverySendCarriesBody ==
  (GoodBody /\ ReachedLoop) =>
    \A i \in 1..Len(captured) : captured[i] = opts.Body.data

\* C4 as claimed: once the context is cancelled during a backoff wait, no
\* further send is performed.
C4_Claim_NoSendAfterCancelInBackoff ==
  (ctxErr = "Canceled" /\ cancelPc = "backoff") => sendsAfterCancel = 0

\* C5 as claimed: once a send is answered with a status < 500, that send is
\* the last one, no backoff wait follows it, and Do returns that response
\* with a nil error.
C5_Original_Below500ReturnsResponse ==
  \A i \in 1..Len(answers) :
    (answers[i].kind = "response" /\ answers[i].status < 500) =>
      /\ sends = i
      /\ waits = i - 1
      /\ pc \in {"after", "done"}
      /\ Done => ret = [resp |-> Resp(answers[i].status, i), err |-> NilErr]

\* C5 as amended: once a send is answered with a status < 500, that send is
\* the last one, no backoff wait follows it, and Do returns that response
\* with a nil error, unless reading the response body fails: then Do returns
\* the read error and no response.
C5_Below500IsTerminal ==
  \A i \in 1..Len(answers) :
    (answers[i].kind = "response" /\ answers[i].status < 500) =>
      /\ sends = i
      /\ waits = i - 1
      /\ pc \in {"after", "done"}
      /\ Done => \/ ret = [resp |-> Resp(answers[i].status, i), err |-> NilErr]
                 \/ ret = [resp |-> NilResp, err |-> Err("ReadError", i)]

C5_Witness ==
  /\ Done
  /\ maxRetries = MaxRetriesBound
  /\ answers = <<Outcome("response", 404)>>
  /\ sends = 1
  /\ ret = [resp |-> Resp(404, 1), err |-> NilErr]

\* the scenario of C6: maxRetries = 2 and the transport's successive answers
\* are a transport error, a 500 and a 200 whose body reads to its end
C6_Scenario ==
  /\ Done
  /\ maxRetries = 2
  /\ answers = <<Outcome("TransportError", 0), Outcome("response", 500),
                 Outcome("response", 200)>>
  /\ ret.err.kind # "ReadError"

\* C6: in that scenario Do performs exactly 3 sends and exactly 2 backoff
\* waits of retryBackoff each, and returns the 200 response with a nil error.
C6_ErrThen500Then200 ==
  C6_Scenario =>
    /\ sends = 3
    /\ waits = 2
    /\ slept = 2 * retryBackoff
    /\ ret = [resp |-> Resp(200, 3), err |-> NilErr]

C6_Witness == C6_Scenario /\ retryBackoff = 10 /\ slept = 20 /\ sends = 3

\* C7 as claimed: once the context is done while a send is in flight or
\* before a send starts, no backoff wait follows; and once it is done while
\* a send is in flight, no further send follows.
C7_Claim_NoRetryAfterCancelInSend ==
  /\ cancelPc \in {"send", "inflight"} => waitsAfterCancel = 0
  /\ cancelPc = "inflight" => sendsAfterCancel = 0

\* C10 as claimed: a request whose method is none of the supported verbs
\* makes Do return an error without any send.
C10_Claim_UnsupportedMethodNoSend ==
  (pc # "idle" /\ opts.Method # <<>> /\ opts.Method \notin SupportedMethods) =>
    /\ sends = 0
    /\ Done => ~ret.err.nil

\* all maxRetries+1 attempts were used and the last one was retriable
ExhaustedRetriable ==
  /\ Done
  /\ ReachedLoop
  /\ sends = maxRetries + 1
  /\ (answers[sends].kind # "response" \/ answers[sends].status >= 500)

\* C11 as claimed: after all maxRetries+1 attempts, the last one retriable,
\* Do returns the last attempt's error when it ended in an error, and the
\* last attempt's response when it produced one.
C11_Original_LastOutcomeReturned ==
  ExhaustedRetriable =>
    /\ answers[sends].kind # "response" =>
         ret = [resp |-> NilResp, err |-> Err(answers[sends].kind, sends)]
    /\ answers[sends].kind = "response" =>
         ret.resp = Resp(answers[sends].status, sends)

\* C11 as amended: after all maxRetries+1 attempts, the last one retriable,
\* Do returns the last attempt's error (no response) when it ended in an
\* error; when it produced a response Do returns that response with a nil
\* error, unless reading its body fails: then Do returns that read error and
\* no response.
C11_LastOutcomeOrReadError ==
  ExhaustedRetriable =>
    /\ answers[sends].kind # "response" =>
         ret = [resp |-> NilResp, err |-> Err(answers[sends].kind, sends)]
    /\ answers[sends].kind = "response" =>
         \/ ret = [resp |-> Resp(answers[sends].status, sends), err |-> NilErr]
         \/ ret = [resp |-> NilResp, err |-> Err("ReadError", sends)]

\* three attempts, an error, a 500, an error: the third attempt's error is returned
C11_Witness ==
  /\ ExhaustedRetriable
  /\ answers = <<Outcome("TransportError", 0), Outcome("response", 500),
                 Outcome("TransportError", 0)>>
  /\ ret = [resp |-> NilResp, err |-> Err("TransportError", 3)]

\* the number of events with message msg in the log
Emitted(msg) == Cardinality({i \in 1..Len(log) : log[i].msg = msg})

\* the sends that were answered with a response
ResponseAttempts == {i \in 1..Len(answers) : answers[i].kind = "response"}

\* C12 as claimed: one "Outgoing request" event per send: as soon as the
\* k-th send of a call has started, exactly k such events were emitted.
C12_Claim_BeforeSendEventPerSend ==
  (ReachedLoop /\ pc \in {"inflight", "backoff", "after", "done"}) =>
    Emitted("Outgoing request") = sends

\* C13 as claimed: when Do has returned, one "Incoming response" event was
\* emitted for every attempt that produced a response, none for an attempt
\* that ended in an error, and the error of a last attempt is returned.
C13_Claim_AfterReceiveEventPerResponse ==
  (Done /\ ReachedLoop) =>
    /\ Emitted("Incoming response") = Cardinality(ResponseAttempts)
    /\ answers[sends].kind # "response" => ret.err = Err(answers[sends].kind, sends)

\* Do returned a response
ReturnedResponse == Done /\ ~ret.resp.nil /\ ret.err.nil

\* C14: when Do returns a response, the transport's body stream of that
\* response was read once, to its end; the body handed to the caller is a
\* reader at position 0 that yields the bytes the transport sent; and the
\* "Incoming response" event, the last of the log, carries these bytes
\* unless body logging is disabled.
C14_ReturnedBodyIsFreshCopy ==
  ReturnedResponse =>
    /\ received[ret.resp.n].reads = 1
    /\ received[ret.resp.n].body.pos = Len(received[ret.resp.n].body.data)
    /\ ~retBody.nil
    /\ retBody.pos = 0
    /\ Remaining(retBody) = TransportBody(ret.resp.status, ret.resp.n)
    /\ Remaining(retBody) = received[ret.resp.n].body.data
    /\ log[Len(log)].msg = "Incoming response"
    /\ log[Len(log)].status_code = ret.resp.status
    /\ ~disableLogBody => log[Len(log)].body = Remaining(retBody)

\* a 500 then a 200: the caller gets the second response's bytes, unread
C14_Witness ==
  /\ ReturnedResponse
  /\ answers = <<Outcome("response", 500), Outcome("response", 200)>>
  /\ ret.resp = Resp(200, 2)
  /\ retBody = NewReader(TransportBody(200, 2))
  /\ ~disableLogBody
  /\ log[Len(log)].body = TransportBody(200, 2)

\* ===================================================================
\* Properties of the net/http Do with time passing (specification SpecTime)
\* ===================================================================
\* the deadline C15 names for a call started at time 0: with opts.Timeout
\* set, the earlier of the caller's deadline and call start + opts.Timeout
EffectiveDeadline ==
  IF opts.Timeout > 0 THEN Min(ctxDeadline, opts.Timeout) ELSE ctxDeadline

\* C15 as claimed: with opts.Timeout set, no send is ended by the client's
\* own timeout, a send the deadline ends is ended at the effective deadline,
\* and no send or backoff wait is under way after it; with opts.Timeout not
\* set, the client's timeout ends a send that long after its start and the
\* caller's deadline ends a send under way when it comes.
C15_Claim_EffectiveDeadlineGoverns ==
  /\ opts.Timeout > 0 =>
       /\ \A i \in 1..Len(answers) :
            /\ answers[i].kind # "ClientTimeout"
            /\ answers[i].kind = "DeadlineExceeded" => endedAt[i] = EffectiveDeadline
       /\ pc \in {"inflight", "backoff"} => now <= EffectiveDeadline
  /\ opts.Timeout = 0 =>
       \A i \in 1..Len(answers) :
         /\ answers[i].kind = "ClientTimeout" => endedAt[i] = startedAt[i] + clientTimeout
         /\ answers[i].kind = "DeadlineExceeded" =>
              endedAt[i] = IF startedAt[i] > ctxDeadline THEN startedAt[i] ELSE ctxDeadline

\* ===================================================================
\* Properties of concurrent Do calls (specification SpecConc)
\* ===================================================================
\* a Do call run alone against the transport answers ans: attempt a is about
\* to start, k answers are used up, r and e are the last outcome. The run is
\* complete when it returns having used up exactly these answers.
RECURSIVE AloneRun(_, _, _, _, _)
AloneRun(ans, a, k, r, e) ==
  IF ~LoopCond(a) THEN [sends |-> k, ret |-> DoReturn(r, e, TRUE), complete |-> k = Len(ans)]
  ELSE IF k >= Len(ans) THEN [sends |-> k, ret |-> DoReturn(r, e, TRUE), complete |-> FALSE]
  ELSE LET r2 == IF ans[k + 1].kind = "response" THEN Resp(ans[k + 1].status, k + 1)
                 ELSE NilResp
           e2 == IF ans[k + 1].kind = "response" THEN NilErr
                 ELSE Err(ans[k + 1].kind, k + 1)
       IN IF ~Retriable(r2, e2)
            THEN [sends |-> k + 1, ret |-> DoReturn(r2, e2, TRUE),
                  complete |-> k + 1 = Len(ans)]
            ELSE AloneRun(ans, a + 1, k + 1, r2, e2)

Alone(i) == AloneRun(cc.calls[i].answers, 0, 0, NilResp, NilErr)

\* every call that has returned did what it would have done alone: the same
\* number of sends, the same result, its own response body, and every send
\* under its own deadline
ConcAsAlone ==
  \A i \in DOMAIN cc.calls :
    cc.calls[i].pc = "done" =>
      /\ Alone(i).complete
      /\ Alone(i).sends = cc.calls[i].sends
      /\ Alone(i).ret = cc.calls[i].ret
      /\ ~cc.calls[i].ret.resp.nil =>
           cc.calls[i].body =
             NewReader(ConcBody(i, cc.calls[i].ret.resp.status, cc.calls[i].ret.resp.n))
      /\ \A j \in 1..Len(cc.calls[i].deadlines) :
           cc.calls[i].deadlines[j] =
             IF cc.calls[i].timeout > 0 THEN Min(ctxDeadline, cc.calls[i].timeout)
             ELSE ctxDeadline

\* C17: in every interleaving of concurrent Do calls on one client, no step
\* of a call changes a configuration field of the client, and every call
\* that has returned performed the sends and returned the result it would
\* have alone against the same transport answers, with its own buffered
\* body and under its own deadline.
C17_ConcurrentCallsIndependent == []ConcAsAlone /\ [][config' = config]_vars

\* two calls have returned after interleaved retries with different outcomes
C17_Witness ==
  /\ DOMAIN cc.calls = 1..MaxCalls
  /\ maxRetries = 1
  /\ cc.calls[1].pc = "done"
  /\ cc.calls[2].pc = "done"
  /\ cc.calls[1].answers = <<Outcome("response", 503), Outcome("response", 200)>>
  /\ cc.calls[2].answers = <<Outcome("TransportError", 0), Outcome("TransportError", 0)>>
  /\ cc.calls[1].ret = [resp |-> Resp(200, 2), err |-> NilErr]
  /\ cc.calls[2].ret = [resp |-> NilResp, err |-> Err("TransportError", 2)]
  /\ cc.calls[1].timeout # cc.calls[2].timeout

\* ===================================================================
\* Properties of logRequest and logResponse (specification SpecLog)
\* ===================================================================
\* C16 as claimed: in the "Outgoing request" and "Incoming response" events
\* the body, headers and query fields are empty when their switch is set,
\* and otherwise equal the body the request carries (the response body
\* read), the request's (response's) header and the request URL's query.
C16_Claim_LogFieldsGatedAndActual ==
  /\ lg.reqEvent.msg = "Outgoing request" =>
       /\ lg.reqEvent.body =
            IF disableLogBody THEN <<>> ELSE Remaining(lg.req.Body)
       /\ lg.reqEvent.headers = IF disableLogHeaders THEN EmptyMap ELSE lg.req.Header
       /\ lg.reqEvent.query = IF disableLogQuery THEN <<>> ELSE lg.req.URL.RawQuery
  /\ lg.respEvent.msg = "Incoming response" =>
       /\ lg.respEvent.body = IF disableLogBody THEN <<>> ELSE lg.responseBody
       /\ lg.respEvent.headers = IF disableLogHeaders THEN EmptyMap ELSE lg.header

\* ===================================================================
\* Properties of the header merge (specification SpecHeaders)
\* ===================================================================
\* the value the outgoing header carries for key k, as Header.Get reads it
Carried(k) ==
  LET ck == CanonicalMIMEHeaderKey(k) IN
  IF ck \in DOMAIN hdr.out THEN hdr.out[ck] ELSE <<>>

\* the values map m gives the header name ck, under any spelling
ValuesFor(m, ck) == {m[k] : k \in {x \in DOMAIN m : CanonicalMIMEHeaderKey(x) = ck}}

\* the header name httpclient2's authentication sets, if any
AuthHeader(c) ==
  IF c.authMethod \in {"basic", "bearer"} THEN {S_Authorization}
  ELSE IF c.authMethod = "apikey" /\ c.authConfig.location = S_header
    THEN {CanonicalMIMEHeaderKey(S_X_API_Key)}
    ELSE {}

\* C8 as claimed: in every client's Do, a key present in both maps is sent
\* with the per-request value, and a key present in one map only is sent
\* with that map's value.
C8_Original_RequestHeaderWins ==
  hdr.done =>
    /\ \A k \in DOMAIN hdr.headers : Carried(k) = <<hdr.headers[k]>>
    /\ \A k \in (DOMAIN hdr.defaultHeaders) \ (DOMAIN hdr.headers) :
         Carried(k) = <<hdr.defaultHeaders[k]>>

\* C8 as amended: header names are matched in canonical MIME form. A name
\* the per-request headers set is sent with a per-request value for it; a
\* name only defaultHeaders sets is sent with a default value for it; except
\* that in httpclient2.Client the header its authentication sets is sent
\* with the authentication's value.
C8_RequestHeaderWinsUnlessAuth ==
  hdr.done =>
    \A k \in (DOMAIN hdr.headers) \cup (DOMAIN hdr.defaultHeaders) :
      LET ck == CanonicalMIMEHeaderKey(k) IN
      IF hdr.client = "client2" /\ ck \in AuthHeader(hdr.c2) THEN
        /\ Carried(k) \notin {<<v>> : v \in HeaderValues}
        /\ hdr.c2.authMethod = "bearer" => Carried(k) = <<S_Bearer_ \o hdr.c2.authConfig.token>>
        /\ hdr.c2.authMethod = "apikey" => Carried(k) = <<hdr.c2.authConfig.key>>
        /\ hdr.c2.authMethod = "basic" => SubSeq(Carried(k)[1], 1, Len(S_Basic_)) = S_Basic_
      ELSE IF ValuesFor(hdr.headers, ck) # {} THEN
        Carried(k) \in {<<v>> : v \in ValuesFor(hdr.headers, ck)}
      ELSE
        Carried(k) \in {<<v>> : v \in ValuesFor(hdr.defaultHeaders, ck)}

\* the scenario of the specification, in each client with no authentication
C8_Witness ==
  /\ hdr.done
  /\ hdr.c2 = New2
  /\ hdr.defaultHeaders = ScenarioDefaults
  /\ hdr.headers = ScenarioHeaders
  /\ hdr.out = [k \in {S_Authorization} |-> <<<<"Y">>>>]

\* ===================================================================
\* Properties of httpclient2 buildURL (specification SpecURL)
\* ===================================================================
\* the query parameters of the built URL, parsed back
BuiltQuery == ParseQuery(urlParse(ub.url).RawQuery)

\* API-key authentication placed in the query, and the caller's query has
\* the key api_key too
ApiKeyCollision ==
  /\ ub.c.authMethod = "apikey"
  /\ ub.c.authConfig.location = S_query
  /\ S_api_key \in DOMAIN ub.Query

\* C9: with API-key authentication in the query and a caller query that has
\* the key api_key, the built URL holds the caller's value and the
\* authentication's value side by side, and two runs on the same inputs
\* build the same URL whatever order the query map is ranged over.
C9_ApiKeyCoexistsDeterministic ==
  ub.done =>
    /\ ub.err = ub.err2
    /\ ub.url = ub.url2
    /\ (ApiKeyCollision /\ ~ub.err) =>
         /\ S_api_key \in DOMAIN BuiltQuery
         /\ \E i, j \in 1..Len(BuiltQuery[S_api_key]) :
              /\ i # j
              /\ BuiltQuery[S_api_key][i] = ub.Query[S_api_key]
              /\ BuiltQuery[S_api_key][j] = ub.c.authConfig.key

C9_Witness ==
  /\ ub.done
  /\ ~ub.err
  /\ ApiKeyCollision
  /\ DOMAIN ub.Query = QueryKeys
  /\ ub.Query[S_api_key] = S_x_amp_y
  /\ ub.Path = S_p_api_key
  /\ BuiltQuery[S_api_key] = <<<<"p">>, S_x_amp_y, <<"k">>>>

\* the URL a run built, parsed
BuiltURL == urlParse(ub.url)

\* C18: every key/value pair of the caller's query map is among the query
\* parameters of the URL built, by httpclient2's buildURL and by the
\* net/http Do, whenever a URL is built.
C18_CallerQueryInURL ==
  (ub.done /\ ~ub.err) =>
    /\ BuiltURL.ok
    /\ \A k \in DOMAIN ub.Query :
         /\ k \in DOMAIN BuiltQuery
         /\ \E i \in 1..Len(BuiltQuery[k]) : BuiltQuery[k][i] = ub.Query[k]

\* the net/http Do replaces the value the base URL's query gives the key a
C18_Witness ==
  /\ ub.done
  /\ ~ub.err
  /\ ub.client = "http"
  /\ ub.base.RawQuery = <<"a", "=", "1">>
  /\ ub.Path = <<>>
  /\ DOMAIN ub.Query = QueryKeys
  /\ ub.Query[<<"a">>] = S_x_amp_y
  /\ BuiltQuery[<<"a">>] = <<S_x_amp_y>>

\* the base URL of the run, and the path the request asks for
BaseOfRun == IF ub.client = "http" THEN ub.base ELSE urlParse(ub.c.baseURL)
PathOfRun == IF ub.client = "http" THEN ub.Path ELSE urlParse(ub.Path).Path

\* C19 as claimed: for a base URL with scheme, host and a non-empty path,
\* and a request path that starts with a slash, the URL built keeps the
\* base's scheme and host, and its path is the request path.
C19_Claim_PathReplacesBasePath ==
  (ub.done /\ ~ub.err /\ BaseOfRun.ok /\ BaseOfRun.Host # <<>> /\ BaseOfRun.Path # <<>> /\
   HasPrefix(ub.Path, <<"/">>)) =>
    /\ BuiltURL.Scheme = BaseOfRun.Scheme
    /\ BuiltURL.Host = BaseOfRun.Host
    /\ BuiltURL.Path = PathOfRun

\* ===================================================================
\* Properties of httpclient2 Client.Do (specification SpecDo2)
\* ===================================================================
\* C20: at every point of a Do call, and so after it, whether it returned a
\* response or an error, the caller's Headers map and Query map hold
\* exactly the entries they held before the call, under every
\* authentication setting.
C20_CallerMapsUnchanged ==
  /\ d2.maps.reqHeaders = d2.before.reqHeaders
  /\ d2.maps.reqQuery = d2.before.reqQuery

\* a call with bearer authentication returned a response; the request it
\* sent carries the token where the caller's Headers map says Y
C20_Witness ==
  /\ d2.pc = "done"
  /\ d2.ret = "response"
  /\ d2.c.authMethod = "bearer"
  /\ S_Authorization \in DOMAIN d2.before.reqHeaders
  /\ d2.before.reqHeaders[S_Authorization] = <<"Y">>
  /\ d2.maps.header[S_Authorization] = <<S_Bearer_ \o <<"T">> >>
  /\ S_api_key \in DOMAIN d2.before.reqQuery

\* a failed call under API-key-in-query authentication
C20_WitnessFailed ==
  /\ d2.pc = "done"
  /\ d2.ret = "failed to create request"
  /\ d2.c.authMethod = "apikey"
  /\ d2.c.authConfig.location = S_query
  /\ DOMAIN d2.before.reqQuery = {<<"a">>, S_api_key}

\* ===================================================================
\* Further properties of the net/http CommonHTTPClient.Do (specification Spec)
\* ===================================================================
\* the time.Sleep calls that have returned
WaitsOver == IF pc = "backoff" THEN waits - 1 ELSE waits

\* C21: one time.Sleep of retryBackoff lies between every two consecutive
\* sends and none follows the last send: when a send is about to start as
\* many sleeps as sends were made, from then until Do returns one less, so a
\* call of k sends makes k-1 waits; every wait lasts retryBackoff whatever
\* the attempt.
C21_OneFixedWaitBetweenSends ==
  /\ slept = WaitsOver * retryBackoff
  /\ pc = "send" => waits = sends
  /\ pc = "backoff" => waits = sends
  /\ pc \in {"inflight", "after"} => waits = sends - 1
  /\ (Done /\ sends >= 1) => waits = sends - 1

\* every send of a call with maxRetries = 2 was answered 5xx: three sends,
\* two waits of 10, none after the third
C21_Witness ==
  /\ Done
  /\ maxRetries = 2
  /\ AllAnswered(ServerStatuses)
  /\ sends = 3
  /\ waits = 2
  /\ retryBackoff = 10
  /\ slept = 20

\* ===================================================================
\* Termination of the net/http CommonHTTPClient.Do (specification SpecLive)
\* ===================================================================
\* the sends of the call so far are at most maxRetries+1, and a send is
\* prepared, under way or slept after only with attempt <= maxRetries
SendsBounded ==
  /\ sends <= maxRetries + 1
  /\ pc \in {"send", "inflight", "backoff"} => attempt <= maxRetries

\* C22 as claimed: every call returns, having made at least 1 and at most
\* maxRetries+1 sends.
C22_Original_ReturnsAfterOneToNPlus1Sends ==
  /\ <>Done
  /\ [](SendsBounded /\ (Done => sends >= 1))

\* C22: every call returns; its sends never exceed maxRetries+1 and no
\* send is made with an attempt index above maxRetries; a call that got as
\* far as the retry loop has made at least one send when it returns.
C22_ReturnsWithinNPlus1Sends ==
  /\ <>Done
  /\ [](SendsBounded /\ ((Done /\ ReachedLoop) => sends >= 1))

\* a call that used all its sends on an error, a 5xx and a 404, and returned
C22_Witness ==
  /\ Done
  /\ maxRetries = 2
  /\ sends = 3
  /\ Len(answers) = 3
  /\ answers[1].kind = "TransportError"
  /\ answers[2] = Outcome("response", 500)
  /\ answers[3] = Outcome("response", 404)
  /\ attempt = 2

\* ===================================================================
\* Request and response streams of the net/http Do (specification Spec)
\* ===================================================================
\* the caller's body is a stream whose read fails before its end
FailingBody == ~opts.Body.nil /\ ReadFails(opts.Body)

\* C23 as claimed: when reading the caller's request body fails part-way, Do
\* returns an error and no send is answered by a response to a truncated
\* body.
C23_Claim_BodyReadFailureReturned ==
  (Done /\ ReachedLoop /\ FailingBody) =>
    /\ ~ret.err.nil
    /\ \A i \in 1..Len(answers) : answers[i].kind # "response"

\* C24 as claimed: when Do has returned, every body stream the transport
\* handed back during the call is closed.
C24_Claim_ResponseBodiesClosed ==
  Done => \A i \in 1..Len(received) : ~received[i].body.nil => received[i].closed

\* ===================================================================
\* Authentication in httpclient2 Client.Do (specification SpecDo2)
\* ===================================================================
\* the header names the configured authentication writes, in the
\* canonical form under which an http.Header holds them
AuthHeaderNames(c) ==
  IF c.authMethod \in {"basic", "bearer"} THEN {CanonicalMIMEHeaderKey(S_Authorization)}
  ELSE IF c.authMethod = "apikey" /\ c.authConfig.location = S_header
    THEN {CanonicalMIMEHeaderKey(S_X_API_Key)}
  ELSE {}

\* the value the configured authentication gives its header
AuthHeaderValue(c) ==
  IF c.authMethod = "basic"
    THEN S_Basic_ \o B64(c.authConfig.username \o <<":">> \o c.authConfig.password)
  ELSE IF c.authMethod = "bearer" THEN S_Bearer_ \o c.authConfig.token
  ELSE c.authConfig.key

\* the header sent compared with the merged header: the authentication's
\* header holds the authentication's value alone, every other header is
\* as merged
AuthOverMerged(c, merged, sent) ==
  /\ DOMAIN sent = (DOMAIN merged) \cup AuthHeaderNames(c)
  /\ \A k \in DOMAIN sent :
       sent[k] = IF k \in AuthHeaderNames(c) THEN <<AuthHeaderValue(c)>> ELSE merged[k]

\* C25: the step of Do that follows the header merge applies the
\* authentication to the merged header: with Basic or Bearer the
\* Authorization header sent is the authentication's value whatever the
\* default and request headers set, with an API key in the header X-API-Key
\* is the configured key, and without authentication the merged header is
\* sent as it is.
C25_AuthAppliedAfterMerge ==
  [][d2.pc = "auth" =>
       /\ d2'.pc = "send"
       /\ AuthOverMerged(d2.c, d2.maps.header, d2'.maps.header)
       /\ d2.c.authMethod = "none" => d2'.maps.header = d2.maps.header]_vars

\* Basic authentication replaced the Authorization Y of the request, which
\* had replaced the default X; X-API-Key is sent as the request set it
C25_Witness ==
  /\ d2.pc = "send"
  /\ d2.c.authMethod = "basic"
  /\ d2.c.defaultHeaders = ScenarioDefaults
  /\ DOMAIN d2.maps.reqHeaders = {S_Authorization, S_X_API_Key}
  /\ d2.maps.reqHeaders[S_Authorization] = <<"Y">>
  /\ d2.maps.header[CanonicalMIMEHeaderKey(S_Authorization)] = <<AuthHeaderValue(d2.c)>>
  /\ d2.maps.header[CanonicalMIMEHeaderKey(S_X_API_Key)] =
       <<d2.maps.reqHeaders[S_X_API_Key]>>

====
